---- MODULE Spec2Model ----
(***************************************************************************)
(* A model of the chunk streaming store (chunk.h, chunk_manager.cpp), the   *)
(* field sampler and the SDF character controller (camera.cpp) of           *)
(* performance-mind-palace.                                                 *)
(*                                                                          *)
(* Numbers.  The program computes with float; the model computes with       *)
(* integers in fixed point:                                                 *)
(*   - a world length or position is counted in millimetres;                *)
(*   - an SDF value and a component of a unit vector are counted in         *)
(*     thousandths, a velocity in millimetres per second, a time step in    *)
(*     milliseconds, an angle in whole degrees.                             *)
(* A chunk coordinate is a triple <<x, y, z>> of integers, a world position *)
(* a triple of millimetres.                                                 *)
(***************************************************************************)
EXTENDS Integers, Sequences, FiniteSets, TLC

VARIABLES
    chunks,      \* ChunkManager::chunks: coordinate -> chunk, a function on the stored coordinates
    lastCall,    \* the tick thread's call that led to this state, with its arguments and
                 \* its result; none after a worker's step
    tasks,       \* the generation and upload tasks that are pending or in flight
    camera,      \* the Camera object, with the two static locals of processKeyboard
    frames,      \* the number of calls made on the camera so far
    prevKeys     \* the keys that were pressed at the call of processKeyboard before

(***************************************************************************)
(* Bounds of the model.                                                     *)
(***************************************************************************)
\* cubes per chunk axis; chunk.h:9 sets 32, the model keeps the grid small
CHUNK_CUBES == 2
\* the largest loadRadius and unloadRadius a call passes
MaxRadius == 2
\* the number of calls made on the camera in a behaviour
MaxFrames == 7

(***************************************************************************)
(* Program constants.                                                       *)
(***************************************************************************)
\* chunk.h:10
CHUNK_SIZE == CHUNK_CUBES + 1
\* chunk.h:12: VOXEL_SIZE = CHUNK_WORLD_SIZE / CHUNK_CUBES = 0.5 m
VOXEL_SIZE == 500
\* chunk.h:11-12: CHUNK_WORLD_SIZE = CHUNK_CUBES * VOXEL_SIZE
CHUNK_WORLD_SIZE == CHUNK_CUBES * VOXEL_SIZE
\* chunk.h:66: the value the constructor fills the sample buffer with (-1.0)
AIR_VALUE == -1000

abs(n) == IF n < 0 THEN -n ELSE n

Max2(a, b) == IF a > b THEN a ELSE b

Min2(a, b) == IF a < b THEN a ELSE b

(***************************************************************************)
(* chunk.h: coordinates.                                                    *)
(***************************************************************************)
\* chunkToWorldPos: the world position of a chunk's origin
chunkToWorldPos(coord) ==
    <<coord[1] * CHUNK_WORLD_SIZE, coord[2] * CHUNK_WORLD_SIZE, coord[3] * CHUNK_WORLD_SIZE>>

\* floor(v / CHUNK_WORLD_SIZE): \div rounds towards minus infinity, as floor does
FloorDiv(v, d) == v \div d

\* static_cast<int>(v / CHUNK_WORLD_SIZE) without the floor: rounds towards zero
worldToChunkCoordTruncated(worldPos) ==
    LET trunc(v) == IF v < 0 THEN -((-v) \div CHUNK_WORLD_SIZE) ELSE v \div CHUNK_WORLD_SIZE
    IN  <<trunc(worldPos[1]), trunc(worldPos[2]), trunc(worldPos[3])>>

\* worldToChunkCoord: the coordinate of the chunk that contains a world position
worldToChunkCoord(worldPos) ==
    <<FloorDiv(worldPos[1], CHUNK_WORLD_SIZE),
      FloorDiv(worldPos[2], CHUNK_WORLD_SIZE),
      FloorDiv(worldPos[3], CHUNK_WORLD_SIZE)>>

(***************************************************************************)
(* chunk.h: VolumeChunk.  The sample buffer sdf[CHUNK_SIZE]^3 is kept as    *)
(* the name of the field whose values it holds: "air" after construction.   *)
(* addr tells the instances of one coordinate apart: a pointer to a chunk   *)
(* is [coord, addr], and it points to the chunk stored at coord iff that    *)
(* chunk has its addr.                                                      *)
(***************************************************************************)
\* the lifecycle flags the eviction scan reads (chunk_manager.cpp:69-70); their
\* declaration is not in chunk.h as given: all false in a new chunk
LifecycleFlags ==
    [generationQueued |-> FALSE, generationInProgress |-> FALSE, uploadInProgress |-> FALSE]

\* the constructor, with the fields the modelled code reads or writes
VolumeChunk(coord, addr) ==
    [addr |-> addr, sdf |-> "air", below |-> {},
     generationQueued |-> LifecycleFlags.generationQueued,
     generationInProgress |-> LifecycleFlags.generationInProgress,
     uploadInProgress |-> LifecycleFlags.uploadInProgress]

Ptr(coord, addr) == [coord |-> coord, addr |-> addr]

\* nullptr
NullPtr == Ptr(<<0, 0, 0>>, 0)

\* std::make_unique: a new instance is none of the instances that are stored or
\* that a pointer in held still names (the lowest such addr of its coordinate)
RECURSIVE FreeAddr(_, _, _, _)
FreeAddr(store, held, coord, a) ==
    IF \/ Ptr(coord, a) \in held
       \/ (coord \in DOMAIN store /\ store[coord].addr = a)
    THEN FreeAddr(store, held, coord, a + 1)
    ELSE a

NewAddr(store, held, coord) == FreeAddr(store, held, coord, 1)

(***************************************************************************)
(* chunk_manager.cpp: ChunkManager.  held is the set of the pointers the     *)
(* callers and the tasks hold when the call is made.                         *)
(***************************************************************************)
\* a getOrCreateChunk that does not look the coordinate up first
getOrCreateChunkAlways(store, held, coord) ==
    LET chunk == VolumeChunk(coord, NewAddr(store, held, coord))
    IN  [chunks |-> [c \in DOMAIN store \cup {coord} |->
                        IF c = coord THEN chunk ELSE store[c]],
         ret |-> Ptr(coord, chunk.addr)]

\* getOrCreateChunk: the store after the call and the pointer returned
getOrCreateChunk(store, held, coord) ==
    IF coord \in DOMAIN store
    THEN [chunks |-> store, ret |-> Ptr(coord, store[coord].addr)]
    ELSE LET chunk == VolumeChunk(coord, NewAddr(store, held, coord))
         IN  [chunks |-> [c \in DOMAIN store \cup {coord} |->
                             IF c = coord THEN chunk ELSE store[c]],
              ret |-> Ptr(coord, chunk.addr)]

\* getChunk: the pointer to the chunk at coord, or nullptr
getChunk(store, coord) ==
    IF coord \in DOMAIN store THEN Ptr(coord, store[coord].addr) ELSE NullPtr

\* updateChunks, line 38
verticalRadius == 1

\* load loops whose dz loop ends one short (dz < loadRadius)
LoadOrderShortZ(cameraChunk, loadRadius) ==
    LET w == 2 * loadRadius + 1
        h == 2 * verticalRadius + 1
    IN  IF w <= 0 THEN <<>>
        ELSE [n \in 1..(w * h * (w - 1)) |->
                <<cameraChunk[1] - loadRadius + ((n - 1) \div (h * (w - 1))),
                  cameraChunk[2] - verticalRadius + (((n - 1) \div (w - 1)) % h),
                  cameraChunk[3] - loadRadius + ((n - 1) % (w - 1))>>]

\* the coordinates the load loops visit, in the order of the loops (dx outer,
\* dy middle, dz inner)
LoadOrder(cameraChunk, loadRadius) ==
    LET w == 2 * loadRadius + 1
        h == 2 * verticalRadius + 1
    IN  IF w <= 0 THEN <<>>
        ELSE [n \in 1..(w * h * w) |->
                <<cameraChunk[1] - loadRadius + ((n - 1) \div (h * w)),
                  cameraChunk[2] - verticalRadius + (((n - 1) \div w) % h),
                  cameraChunk[3] - loadRadius + ((n - 1) % w)>>]

\* load loops that push the chunk of every coordinate they visit, stored or not
LoadPassPushAll(store, held, order) ==
    LET stored == DOMAIN store
        window == {order[k] : k \in 1..Len(order)}
    IN  [chunks |-> [c \in stored \cup window |-> getOrCreateChunk(store, held, c).chunks[c]],
         newChunks |-> [k \in 1..Len(order) |-> getOrCreateChunk(store, held, order[k]).ret]]

\* updateChunks, lines 39-57, the load loops: each coordinate of the window that
\* is not stored gets a chunk from getOrCreateChunk, which is pushed onto
\* newChunks (the creations are at different coordinates and a coordinate is
\* visited once, so that none changes what another does)
LoadPass(store, held, order) ==
    LET stored == DOMAIN store
        absent == SelectSeq(order, LAMBDA c : c \notin stored)
        created == {absent[k] : k \in 1..Len(absent)}
    IN  [chunks |-> [c \in stored \cup created |-> getOrCreateChunk(store, held, c).chunks[c]],
         newChunks |-> [k \in 1..Len(absent) |-> getOrCreateChunk(store, held, absent[k]).ret]]

\* updateChunks, line 61
verticalUnloadRadius(unloadRadius) == unloadRadius * 2

\* a distance test that leaves the z axis out
OutsideUnloadRadiusNoZ(coord, cameraChunk, unloadRadius) ==
    \/ abs(coord[1] - cameraChunk[1]) > unloadRadius
    \/ abs(coord[2] - cameraChunk[2]) > verticalUnloadRadius(unloadRadius)

\* updateChunks, line 68: the chunk is outside the unload radius
OutsideUnloadRadius(coord, cameraChunk, unloadRadius) ==
    LET dx == coord[1] - cameraChunk[1]
        dy == coord[2] - cameraChunk[2]
        dz == coord[3] - cameraChunk[3]
    IN  \/ abs(dx) > unloadRadius
        \/ abs(dy) > verticalUnloadRadius(unloadRadius)
        \/ abs(dz) > unloadRadius

\* an eviction test that forgets the upload flag
EvictableIgnoringUpload(chunk) ==
    ~chunk.generationQueued /\ ~chunk.generationInProgress

\* updateChunks, lines 69-70: no generation or upload holds the chunk
Evictable(chunk) ==
    ~chunk.generationQueued /\ ~chunk.generationInProgress /\ ~chunk.uploadInProgress

\* updateChunks, lines 60-74: the coordinates marked for removal
toRemove(store, cameraChunk, unloadRadius) ==
    {coord \in DOMAIN store :
        /\ OutsideUnloadRadius(coord, cameraChunk, unloadRadius)
        /\ Evictable(store[coord])}

\* updateChunks, lines 77-79
EraseAll(store, coords) == [c \in DOMAIN store \ coords |-> store[c]]

\* updateChunks: the store after the call and the list returned
\* updateChunks, lines 76-87: the chunks at the coordinates of toRemove are erased
\* and newChunks is returned; removed keeps the coordinates that were erased
eraseRemoved(loaded, removed) ==
    [chunks |-> EraseAll(loaded.chunks, removed), newChunks |-> loaded.newChunks,
     removed |-> removed]

\* updateChunks, lines 59-87, after the load loops
unloadPass(loaded, cameraChunk, unloadRadius) ==
    eraseRemoved(loaded, toRemove(loaded.chunks, cameraChunk, unloadRadius))

updateChunks(store, held, cameraPos, loadRadius, unloadRadius) ==
    unloadPass(LoadPass(store, held, LoadOrder(worldToChunkCoord(cameraPos), loadRadius)),
               worldToChunkCoord(cameraPos), unloadRadius)

\* the store after construction: no chunk
EmptyStore == [c \in {} |-> VolumeChunk(c, 1)]

\* clear, lines 90-92
clear(store) == EmptyStore

(***************************************************************************)
(* The sample buffer.  A chunk's sdf names the field whose values its       *)
(* buffer holds at the world positions of its samples: "air" after          *)
(* construction, "terrain" after VolumeGenerator::generateChunk, "y" or     *)
(* "minusY" and "ramp" when the buffer was filled with the synthetic fields *)
(* f(x, y, z) = y, f(x, y, z) = -y and f(x, y, z) = x + 2y + 3z, "solid"    *)
(* when every sample is 1.0; "buried", "slope", "cliff" and "cave" are the  *)
(* grounds of SpecGround: f = 1.2 - y, f = (4 - 4y - 3z) / 5 (a slope of    *)
(* 37 degrees), f = 2x - y (a slope of 64 degrees) and f = |y - 0.75| -     *)
(* 0.75 (solid below y = 0 and above y = 1.5).                              *)
(* A buffer named "corners" holds -0.5 at the                               *)
(* samples whose place in their cube, as a corner number of                 *)
(* getCornerPos, is in the chunk's set below, and 0.5 at the others; the    *)
(* place of a sample goes by the parity of its indices.                     *)
(***************************************************************************)
SyntheticFields == {"y", "minusY", "ramp"}

\* the value of a field at a world position, in thousandths
FieldValue(field, worldPos) ==
    CASE field = "air" -> AIR_VALUE
      [] field = "y" -> worldPos[2]
      [] field = "minusY" -> -worldPos[2]
      [] field = "ramp" -> worldPos[1] + 2 * worldPos[2] + 3 * worldPos[3]
      [] field = "solid" -> 1000
      [] field = "buried" -> 1200 - worldPos[2]
      [] field = "slope" -> (4000 - 4 * worldPos[2] - 3 * worldPos[3]) \div 5
      [] field = "cave" -> abs(worldPos[2] - 750) - 750
      [] field = "cliff" -> 2 * worldPos[1] - worldPos[2]

\* generateChunk, lines 39-43: the world position of the sample [x][y][z]
voxelWorldPos(coord, x, y, z) ==
    LET chunkWorldPos == chunkToWorldPos(coord)
    IN  <<chunkWorldPos[1] + x * VOXEL_SIZE,
          chunkWorldPos[2] + y * VOXEL_SIZE,
          chunkWorldPos[3] + z * VOXEL_SIZE>>

\* marching_cubes.cpp:108-111: the offsets of the 8 corners of a cube
cornerOffsets ==
    <<<<0, 0, 0>>, <<1, 0, 0>>, <<1, 0, 1>>, <<0, 0, 1>>,
      <<0, 1, 0>>, <<1, 1, 0>>, <<1, 1, 1>>, <<0, 1, 1>>>>

\* the corner number (0..7) of the sample [x][y][z] in the cubes of even indices
CornerAt(x, y, z) ==
    4 * (y % 2) + (IF z % 2 = 0 THEN x % 2 ELSE 3 - (x % 2))

\* chunk.sdf[x][y][z] of a chunk whose origin is the chunk coordinate coord
ChunkSdf(chunk, coord, x, y, z) ==
    IF chunk.sdf = "corners"
    THEN IF CornerAt(x, y, z) \in chunk.below THEN -500 ELSE 500
    ELSE FieldValue(chunk.sdf, voxelWorldPos(coord, x, y, z))

\* chunk->sdf[x][y][z] of the chunk stored at coord
Sdf(store, coord, x, y, z) == ChunkSdf(store[coord], coord, x, y, z)

\* generateChunk with the field in the place of generateSDF: every sample of the
\* chunk at coord is overwritten
FillChunk(store, coord, field) ==
    [store EXCEPT ![coord].sdf = field, ![coord].below = {}]

\* every sample of the chunk at coord is overwritten with -0.5 at the corners in
\* below and 0.5 at the others
FillCorners(store, coord, below) ==
    [store EXCEPT ![coord].sdf = "corners", ![coord].below = below]

(***************************************************************************)
(* camera.cpp: sampleSDF and calculateSDFNormal.                            *)
(***************************************************************************)
\* camera.cpp:174 and 188: the value for a position without a chunk (-10.0)
NO_CHUNK_SDF == -10000

\* a * (1 - f) + b * f, f the fraction num / VOXEL_SIZE
Lerp(a, b, num) == (a * (VOXEL_SIZE - num) + b * num) \div VOXEL_SIZE

\* sampleSDF, lines 177-212: the sample of a position in the chunk stored at chunkCoord
sampleChunk(store, chunkCoord, worldPos) ==
    LET chunkWorldPos == chunkToWorldPos(chunkCoord)
        localPos == [i \in 1..3 |-> worldPos[i] - chunkWorldPos[i]]
    IN  IF \E i \in 1..3 : \/ localPos[i] < 0
                           \/ localPos[i] >= (CHUNK_SIZE - 1) * VOXEL_SIZE
        THEN NO_CHUNK_SDF
        ELSE LET x0 == localPos[1] \div VOXEL_SIZE
                 y0 == localPos[2] \div VOXEL_SIZE
                 z0 == localPos[3] \div VOXEL_SIZE
                 x1 == x0 + 1
                 y1 == y0 + 1
                 z1 == z0 + 1
                 fx == localPos[1] % VOXEL_SIZE
                 fy == localPos[2] % VOXEL_SIZE
                 fz == localPos[3] % VOXEL_SIZE
                 c00 == Lerp(Sdf(store, chunkCoord, x0, y0, z0),
                             Sdf(store, chunkCoord, x1, y0, z0), fx)
                 c01 == Lerp(Sdf(store, chunkCoord, x0, y0, z1),
                             Sdf(store, chunkCoord, x1, y0, z1), fx)
                 c10 == Lerp(Sdf(store, chunkCoord, x0, y1, z0),
                             Sdf(store, chunkCoord, x1, y1, z0), fx)
                 c11 == Lerp(Sdf(store, chunkCoord, x0, y1, z1),
                             Sdf(store, chunkCoord, x1, y1, z1), fx)
                 c0 == Lerp(c00, c10, fy)
                 c1 == Lerp(c01, c11, fy)
             IN  Lerp(c0, c1, fz)

\* a sampleSDF that reads chunks[chunkCoord] without the find: a position
\* without a chunk reads the buffer of a chunk made on the spot
sampleSDFWithoutFind(store, worldPos) ==
    LET chunkCoord == worldToChunkCoord(worldPos)
    IN  IF chunkCoord \notin DOMAIN store
        THEN AIR_VALUE
        ELSE sampleChunk(store, chunkCoord, worldPos)

\* sampleSDF, lines 167-213
sampleSDF(store, worldPos) ==
    LET chunkCoord == worldToChunkCoord(worldPos)
    IN  IF chunkCoord \notin DOMAIN store
        THEN NO_CHUNK_SDF
        ELSE sampleChunk(store, chunkCoord, worldPos)

\* the integer square root, by Newton's iteration
RECURSIVE SqrtIter(_, _)
SqrtIter(n, x) ==
    LET y == (x + n \div x) \div 2
    IN  IF y >= x THEN x ELSE SqrtIter(n, y)

ISqrt(n) == IF n <= 0 THEN 0 ELSE SqrtIter(n, n)

\* glm::length
Length(v) == ISqrt(v[1] * v[1] + v[2] * v[2] + v[3] * v[3])

\* a / b rounded towards zero
Quot(a, b) == IF a < 0 THEN -((-a) \div b) ELSE a \div b

\* v / len, the result in thousandths, its components rounded towards zero
Divide(v, len) == <<Quot(v[1] * 1000, len), Quot(v[2] * 1000, len), Quot(v[3] * 1000, len)>>

\* glm::normalize
Unit(v) == Divide(v, Length(v))

Neg(v) == <<-v[1], -v[2], -v[3]>>

\* calculateSDFNormal, line 217: step = 0.1
SDF_NORMAL_STEP == 100

\* calculateSDFNormal, line 227: the gradient normalized, or up when it is too short
normalOf(gradient) == IF Length(gradient) > 1 THEN Unit(gradient) ELSE <<0, 1000, 0>>

\* calculateSDFNormal, lines 216-228: the central differences dx, dy, dz and the
\* normal of this gradient
calculateSDFNormal(store, pos) ==
    normalOf(<<sampleSDF(store, <<pos[1] + SDF_NORMAL_STEP, pos[2], pos[3]>>)
                 - sampleSDF(store, <<pos[1] - SDF_NORMAL_STEP, pos[2], pos[3]>>),
               sampleSDF(store, <<pos[1], pos[2] + SDF_NORMAL_STEP, pos[3]>>)
                 - sampleSDF(store, <<pos[1], pos[2] - SDF_NORMAL_STEP, pos[3]>>),
               sampleSDF(store, <<pos[1], pos[2], pos[3] + SDF_NORMAL_STEP>>)
                 - sampleSDF(store, <<pos[1], pos[2], pos[3] - SDF_NORMAL_STEP>>)>>)

\* 1000 * cos of 0, 1, ..., 180 degrees, rounded up
CosThousandths ==
    <<
      1000, 1000, 1000, 999, 998, 997, 995, 993, 991, 988, 985, 982, 979,
      975, 971, 966, 962, 957, 952, 946, 940, 934, 928, 921, 914, 907,
      899, 892, 883, 875, 867, 858, 849, 839, 830, 820, 810, 799, 789,
      778, 767, 755, 744, 732, 720, 708, 695, 682, 670, 657, 643, 630,
      616, 602, 588, 574, 560, 545, 530, 516, 500, 485, 470, 454, 439,
      423, 407, 391, 375, 359, 343, 326, 310, 293, 276, 259, 242, 225,
      208, 191, 174, 157, 140, 122, 105, 88, 70, 53, 35, 18, 0,
      -17, -34, -52, -69, -87, -104, -121, -139, -156, -173, -190, -207, -224,
      -241, -258, -275, -292, -309, -325, -342, -358, -374, -390, -406, -422, -438,
      -453, -469, -484, -500, -515, -529, -544, -559, -573, -587, -601, -615, -629,
      -642, -656, -669, -681, -694, -707, -719, -731, -743, -754, -766, -777, -788,
      -798, -809, -819, -829, -838, -848, -857, -866, -874, -882, -891, -898, -906,
      -913, -920, -927, -933, -939, -945, -951, -956, -961, -965, -970, -974, -978,
      -981, -984, -987, -990, -992, -994, -996, -997, -998, -999, -999, -1000
    >>

\* glm::degrees(std::acos(d / 1000)), rounded up to whole degrees: the least angle
\* whose cosine is at most d, which is the number of the angles 0, ..., 179 whose
\* cosine is more than d
AcosDegrees(d) == Cardinality({a \in 1..180 : CosThousandths[a] > d})

\* glm::clamp
Clamp(v, lo, hi) == IF v < lo THEN lo ELSE IF v > hi THEN hi ELSE v

(***************************************************************************)
(* camera.cpp: Camera.  pitch and yaw stay as constructed (pitch 0, yaw      *)
(* -90 degrees): the camera looks along -z.                                 *)
(***************************************************************************)
\* camera.cpp:11
movementSpeed == 8000
\* camera.cpp:13
gravity == -20000
\* camera.cpp:14
jumpStrength == 8000
\* camera.cpp:15
playerHeight == 1800
\* camera.cpp:19
maxWalkableSlope == 50
\* camera.cpp:240: the fall speed is capped at -50.0
MAX_FALL_SPEED == -50000

\* v * k / 1000, k in thousandths
Scale(v, k) == <<Quot(v[1] * k, 1000), Quot(v[2] * k, 1000), Quot(v[3] * k, 1000)>>

Add(v, w) == <<v[1] + w[1], v[2] + w[2], v[3] + w[3]>>

\* glm::dot of two vectors, one of them in thousandths
Dot(v, w) == Quot(v[1] * w[1] + v[2] * w[2] + v[3] * w[3], 1000)

\* glm::cross of two vectors in thousandths
Cross(v, w) ==
    <<Quot(v[2] * w[3] - v[3] * w[2], 1000),
      Quot(v[3] * w[1] - v[1] * w[3], 1000),
      Quot(v[1] * w[2] - v[2] * w[1], 1000)>>

\* the constructor, lines 6-23, and the static locals of processKeyboard, lines 47
\* and 127
Camera(startPosition) ==
    [position |-> startPosition, velocity |-> <<0, 0, 0>>,
     onGround |-> FALSE, noclip |-> FALSE,
     groundNormal |-> <<0, 1000, 0>>, jumpsRemaining |-> 2,
     nWasPressed |-> FALSE, spaceWasPressed |-> FALSE]

\* getForward, lines 29-35, and getRight, lines 37-39, for pitch 0 and yaw -90 degrees
getForward == <<0, 0, -1000>>

getRight == Unit(Cross(getForward, <<0, 1000, 0>>))

\* a jump that does not look at jumpsRemaining
jumpWithoutBudget(cam) ==
    IF cam.noclip THEN cam
    ELSE [cam EXCEPT !.velocity[2] = jumpStrength,
                     !.jumpsRemaining = cam.jumpsRemaining - 1,
                     !.onGround = FALSE]

\* jump, lines 155-164
jump(cam) ==
    IF cam.noclip THEN cam
    ELSE IF cam.jumpsRemaining > 0
         THEN [cam EXCEPT !.velocity[2] = jumpStrength,
                          !.jumpsRemaining = cam.jumpsRemaining - 1,
                          !.onGround = FALSE]
         ELSE cam

\* processKeyboard, lines 57-68: free flight
flyKeys(cam, keys, deltaTime) ==
    LET speed == Quot(movementSpeed * deltaTime, 1000)
        forward == getForward
        right == getRight
        p1 == IF "W" \in keys THEN Add(cam.position, Scale(forward, speed)) ELSE cam.position
        p2 == IF "S" \in keys THEN Add(p1, Neg(Scale(forward, speed))) ELSE p1
        p3 == IF "A" \in keys THEN Add(p2, Neg(Scale(right, speed))) ELSE p2
        p4 == IF "D" \in keys THEN Add(p3, Scale(right, speed)) ELSE p3
        p5 == IF "SPACE" \in keys THEN Add(p4, <<0, speed, 0>>) ELSE p4
        p6 == IF "SHIFT" \in keys THEN Add(p5, <<0, -speed, 0>>) ELSE p5
    IN  [cam EXCEPT !.position = p6]

\* glm::length(glm::vec2(velocity.x, velocity.z))
HorizontalSpeed(velocity) == Length(<<velocity[1], 0, velocity[3]>>)

\* processKeyboard, lines 115-116: the direction of the horizontal velocity at the
\* speed newSpeed
slowedTo(v, dir, newSpeed) ==
    <<Quot(dir[1] * newSpeed, 1000), v[2], Quot(dir[3] * newSpeed, 1000)>>

\* a ground friction without the branch for a speed of at most 0.001
groundFrictionWithoutStop(v, deltaTime) ==
    slowedTo(v, Unit(<<v[1], 0, v[3]>>),
             Max2(0, HorizontalSpeed(v) - Quot(HorizontalSpeed(v) * 15 * deltaTime, 1000)))

\* processKeyboard, lines 108-124: ground friction, friction = 15.0; a speed of at
\* most 0.001 becomes 0
groundFriction(v, deltaTime) ==
    IF HorizontalSpeed(v) > 1
    THEN slowedTo(v, Unit(<<v[1], 0, v[3]>>),
                  Max2(0, HorizontalSpeed(v) - Quot(HorizontalSpeed(v) * 15 * deltaTime, 1000)))
    ELSE <<0, v[2], 0>>

\* processKeyboard, lines 70-124: the horizontal velocity in physics mode
walkVelocity(cam, keys, deltaTime) ==
    LET forward == Unit(<<getForward[1], 0, getForward[3]>>)
        right == Unit(<<getRight[1], 0, getRight[3]>>)
        zero == <<0, 0, 0>>
        m1 == IF "W" \in keys THEN forward ELSE zero
        m2 == IF "S" \in keys THEN Add(m1, Neg(forward)) ELSE m1
        m3 == IF "A" \in keys THEN Add(m2, Neg(right)) ELSE m2
        m4 == IF "D" \in keys THEN Add(m3, right) ELSE m3
        isMoving == keys \cap {"W", "S", "A", "D"} # {}
        v == cam.velocity
    IN  IF isMoving /\ Length(m4) > 1
        THEN LET moveDir == Unit(m4)
             IN  IF cam.onGround
                 THEN <<Quot(moveDir[1] * movementSpeed, 1000), v[2],
                        Quot(moveDir[3] * movementSpeed, 1000)>>
                 ELSE LET accel == Quot(movementSpeed * 3 * deltaTime, 10000)
                          vx == v[1] + Quot(moveDir[1] * accel, 1000)
                          vz == v[3] + Quot(moveDir[3] * accel, 1000)
                          airSpeed == HorizontalSpeed(<<vx, 0, vz>>)
                          cap == Quot(movementSpeed * 12, 10)
                      IN  IF airSpeed > cap
                          THEN <<Quot(vx * cap, airSpeed), v[2], Quot(vz * cap, airSpeed)>>
                          ELSE <<vx, v[2], vz>>
        ELSE IF cam.onGround
             THEN groundFriction(v, deltaTime)
             ELSE v

\* a toggle that acts whenever the N key is pressed
toggledWhilePressed(cam, keys) == "N" \in keys

\* processKeyboard, line 48: the N key is pressed and was not
toggled(cam, keys) == "N" \in keys /\ ~cam.nWasPressed

\* processKeyboard, lines 47-55: the mode and the static local nWasPressed
toggleNoclip(cam, keys) ==
    [cam EXCEPT !.noclip = IF toggled(cam, keys) THEN ~cam.noclip ELSE cam.noclip,
                !.nWasPressed = "N" \in keys]

\* processKeyboard, lines 126-135: jump with space, and the static local
\* spaceWasPressed
jumpKey(cam, keys) ==
    [(IF "SPACE" \in keys /\ ~cam.spaceWasPressed THEN jump(cam) ELSE cam)
        EXCEPT !.spaceWasPressed = "SPACE" \in keys]

\* processKeyboard, lines 57-135, after the toggle
moveKeys(cam, keys, deltaTime) ==
    IF cam.noclip
    THEN flyKeys(cam, keys, deltaTime)
    ELSE jumpKey([cam EXCEPT !.velocity = walkVelocity(cam, keys, deltaTime)], keys)

\* processKeyboard, lines 45-141; keys is the set of the keys that are pressed
processKeyboard(cam, keys, deltaTime) == moveKeys(toggleNoclip(cam, keys), keys, deltaTime)

\* processKeyboard, lines 57 and 128-129: the call reaches jump()
jumpCalled(cam, keys) ==
    ~toggleNoclip(cam, keys).noclip /\ "SPACE" \in keys /\ ~cam.spaceWasPressed

\* updatePhysics, lines 236-248: the velocity after gravity, the tentative position
\* and the position of the feet
fallVelocity(cam, deltaTime) ==
    <<cam.velocity[1],
      Max2(cam.velocity[2] + Quot(gravity * deltaTime, 1000), MAX_FALL_SPEED),
      cam.velocity[3]>>

tentativePosition(cam, deltaTime) ==
    LET velocity == fallVelocity(cam, deltaTime)
    IN  Add(cam.position, <<Quot(velocity[1] * deltaTime, 1000),
                            Quot(velocity[2] * deltaTime, 1000),
                            Quot(velocity[3] * deltaTime, 1000)>>)

feetPosition(cam, deltaTime) ==
    Add(tentativePosition(cam, deltaTime), <<0, -(playerHeight \div 2), 0>>)

\* a ground normal that is the gradient itself
groundNormalNotNegated(store, feetPos) == calculateSDFNormal(store, feetPos)

\* updatePhysics, line 255: the ground normal is the negated gradient
groundNormalAt(store, feetPos) == Neg(calculateSDFNormal(store, feetPos))

\* updatePhysics, line 258
slopeAngleOf(normal) == AcosDegrees(Clamp(Dot(normal, <<0, 1000, 0>>), -1000, 1000))

\* updatePhysics, lines 253-260: what the ground probe finds
probeResult(probed, sdfAtFeet, normal) ==
    [probed |-> probed, sdfAtFeet |-> sdfAtFeet, groundNormal |-> normal,
     slopeAngle |-> IF probed THEN slopeAngleOf(normal) ELSE 0,
     walkable |-> probed /\ slopeAngleOf(normal) <= maxWalkableSlope]

probeAt(cam, velocity, feetPos, sdfAtFeet, store) ==
    IF sdfAtFeet > -500 /\ velocity[2] <= 500
    THEN probeResult(TRUE, sdfAtFeet, groundNormalAt(store, feetPos))
    ELSE probeResult(FALSE, sdfAtFeet, cam.groundNormal)

groundProbe(cam, deltaTime, store) ==
    probeAt(cam, fallVelocity(cam, deltaTime), feetPosition(cam, deltaTime),
            sampleSDF(store, feetPosition(cam, deltaTime)), store)

\* updatePhysics, lines 276-283: the velocity on a slope that is too steep
steepVelocity(velocity, downSlope, deltaTime) ==
    IF Length(downSlope) > 1
    THEN Add(velocity, Scale(Unit(downSlope), Quot(gravity * deltaTime * 3, 10000)))
    ELSE velocity

\* updatePhysics, lines 250-285: the camera and the tentative position after the
\* ground probe
groundStep(cam, velocity, newPosition, probe, deltaTime) ==
    IF probe.walkable
    THEN [cam |-> [cam EXCEPT !.groundNormal = probe.groundNormal,
                              !.onGround = TRUE, !.jumpsRemaining = 2,
                              !.velocity = <<velocity[1], 0, velocity[3]>>],
          newPosition |->
             IF probe.sdfAtFeet > 50
             THEN Add(newPosition, <<0, Quot(probe.sdfAtFeet * 5, 10), 0>>)
             ELSE IF probe.sdfAtFeet > -100
                  THEN Add(newPosition, <<0, -Quot(probe.sdfAtFeet * 3, 10), 0>>)
                  ELSE newPosition]
    ELSE [cam |-> [cam EXCEPT !.groundNormal = probe.groundNormal,
                              !.onGround = FALSE,
                              !.velocity =
                                 IF probe.probed
                                 THEN steepVelocity(velocity,
                                         Add(probe.groundNormal,
                                             Neg(Scale(<<0, 1000, 0>>,
                                                       Dot(probe.groundNormal, <<0, 1000, 0>>)))),
                                         deltaTime)
                                 ELSE velocity],
          newPosition |-> newPosition]

afterGround(cam, deltaTime, store) ==
    groundStep(cam, fallVelocity(cam, deltaTime), tentativePosition(cam, deltaTime),
               groundProbe(cam, deltaTime, store), deltaTime)

\* updatePhysics, lines 300-308: the velocity of a camera that moves uphill
uphillVelocity(velocity, slopeAngle) ==
    <<Quot(velocity[1] * (1000 - Quot(slopeAngle * 500, maxWalkableSlope)), 1000),
      velocity[2],
      Quot(velocity[3] * (1000 - Quot(slopeAngle * 500, maxWalkableSlope)), 1000)>>

\* updatePhysics, lines 291-298: the direction up the slope
slopeForwardOf(groundNormal, cross) ==
    Unit(Cross(IF Length(cross) < 1 THEN <<1000, 0, 0>> ELSE Unit(cross), groundNormal))

\* updatePhysics, lines 287-309: the velocity on a slope
slopeVelocity(cam) ==
    IF cam.onGround /\ HorizontalSpeed(cam.velocity) > 100
    THEN IF Dot(Unit(<<cam.velocity[1], 0, cam.velocity[3]>>),
                slopeForwardOf(cam.groundNormal, Cross(cam.groundNormal, <<0, 1000, 0>>))) > 100
         THEN uphillVelocity(cam.velocity, slopeAngleOf(cam.groundNormal))
         ELSE cam.velocity
    ELSE cam.velocity

\* updatePhysics, lines 311-317: head collision; positionY is position.y at the call
headCollision(cam, positionY, newPosition, sdfAtHead) ==
    IF sdfAtHead > 0
    THEN [cam |-> [cam EXCEPT !.velocity[2] = Min2(cam.velocity[2], 0)],
          newPosition |-> <<newPosition[1], positionY, newPosition[3]>>]
    ELSE [cam |-> cam, newPosition |-> newPosition]

afterHead(cam, ground, store) ==
    headCollision([ground.cam EXCEPT !.velocity = slopeVelocity(ground.cam)],
                  cam.position[2], ground.newPosition,
                  sampleSDF(store, Add(ground.newPosition, <<0, playerHeight \div 2, 0>>)))

\* the wall collision if it assigned slideVel on all three axes
slideVelocityOnAllAxes(velocity, slideVel) == slideVel

\* updatePhysics, lines 330-332: the velocity slides along the wall; only its x
\* and z components are assigned
slideVelocity(velocity, slideVel) == <<slideVel[1], velocity[2], slideVel[3]>>

\* updatePhysics, lines 319-335: wall collision with sliding, and position = newPosition
wallSlide(cam, newPosition, sdfAtCenter, wallNormal) ==
    [cam EXCEPT !.position = Add(newPosition, Scale(wallNormal, Quot(sdfAtCenter * 7, 10))),
                !.velocity = slideVelocity(cam.velocity,
                                Add(cam.velocity,
                                    Neg(Scale(wallNormal, Dot(cam.velocity, wallNormal)))))]

wallCollision(cam, newPosition, sdfAtCenter, store) ==
    IF sdfAtCenter > 50
    THEN wallSlide(cam, newPosition, sdfAtCenter, Neg(calculateSDFNormal(store, newPosition)))
    ELSE [cam EXCEPT !.position = newPosition]

\* updatePhysics, lines 312-331: what the head and body probes of a tick find, the
\* velocity before the wall collision, slideVel, and the velocity after it
bodyAt(head, sdfAtHead, sdfAtCenter, wallNormal, store) ==
    [sdfAtHead |-> sdfAtHead, sdfAtCenter |-> sdfAtCenter, wallNormal |-> wallNormal,
     before |-> head.cam.velocity,
     slideVel |-> Add(head.cam.velocity,
                      Neg(Scale(wallNormal, Dot(head.cam.velocity, wallNormal)))),
     after |-> wallCollision(head.cam, head.newPosition, sdfAtCenter, store).velocity]

bodyProbe(ground, head, store) ==
    bodyAt(head, sampleSDF(store, Add(ground.newPosition, <<0, playerHeight \div 2, 0>>)),
           sampleSDF(store, head.newPosition),
           Neg(calculateSDFNormal(store, head.newPosition)), store)

\* updatePhysics, lines 337-346: the camera clipping fix
clippingFix(cam, sdfAtEye, store) ==
    IF sdfAtEye > -200 /\ sdfAtEye < 100
    THEN [cam EXCEPT !.position =
             Add(cam.position, Scale(Neg(calculateSDFNormal(store, cam.position)),
                                     Quot((200 - sdfAtEye) * 3, 10)))]
    ELSE cam

afterWall(head, sdfAtCenter, store) ==
    wallCollision(head.cam, head.newPosition, sdfAtCenter, store)

afterClipping(cam, store) == clippingFix(cam, sampleSDF(store, cam.position), store)

\* updatePhysics, lines 348-357: the unstuck mechanism
unstuck(cam, sdfAtCenter, store) ==
    IF sdfAtCenter > 800
    THEN [cam EXCEPT !.position =
                        Add(cam.position, Scale(Neg(calculateSDFNormal(store, cam.position)),
                                                (sdfAtCenter - 800) * 2)),
                     !.velocity = <<Quot(cam.velocity[1], 2), Quot(cam.velocity[2], 2),
                                    Quot(cam.velocity[3], 2)>>]
    ELSE cam

\* updatePhysics from the head collision on; sdfAtCenter is sampled at the
\* tentative position before the wall collision moves it
afterBody(head, sdfAtCenter, store) ==
    unstuck(afterClipping(afterWall(head, sdfAtCenter, store), store), sdfAtCenter, store)

\* updatePhysics, lines 230-358
updatePhysics(cam, deltaTime, store) ==
    IF cam.noclip
    THEN [cam EXCEPT !.onGround = FALSE]
    ELSE afterBody(afterHead(cam, afterGround(cam, deltaTime, store), store),
                   sampleSDF(store, afterHead(cam, afterGround(cam, deltaTime, store),
                                              store).newPosition),
                   store)

(***************************************************************************)
(* marching_cubes.cpp: MarchingCubes.  marching_cubes_tables.h is not among *)
(* the sources: edgeTable and triTable are the standard tables of the       *)
(* algorithm, for the corner and edge numbering of generateMesh.            *)
(***************************************************************************)
\* marching_cubes.cpp:5
isoLevel == 0

\* bit i of n
Bit(n, i) == (n \div (2 ^ i)) % 2

\* generateMesh, lines 48-71: the two corners of each of the 12 edges of a cube
EdgeCorners ==
    <<<<0, 1>>, <<1, 2>>, <<2, 3>>, <<3, 0>>, <<4, 5>>, <<5, 6>>, <<6, 7>>, <<7, 4>>,
      <<0, 4>>, <<1, 5>>, <<2, 6>>, <<3, 7>>>>

\* edgeTable[cubeIndex], as the set of the bits that are set: the edges the surface
\* crosses, those with one corner on each side; edgeTable[cubeIndex] == 0 is the
\* empty set
edgeTable(index) ==
    {e \in 0..11 : Bit(index, EdgeCorners[e + 1][1]) # Bit(index, EdgeCorners[e + 1][2])}

\* triTable[cubeIndex] is triTable[cubeIndex + 1] here: the edges of the triangles
\* of the cube, three for a triangle, up to the first -1
triTable ==
    <<
      <<-1>>, <<0, 8, 3, -1>>, <<0, 1, 9, -1>>, <<1, 8, 3, 9, 8, 1, -1>>,
      <<1, 2, 10, -1>>, <<0, 8, 3, 1, 2, 10, -1>>, <<9, 2, 10, 0, 2, 9, -1>>, <<2, 8, 3, 2, 10, 8, 10, 9, 8, -1>>,
      <<3, 11, 2, -1>>, <<0, 11, 2, 8, 11, 0, -1>>, <<1, 9, 0, 2, 3, 11, -1>>, <<1, 11, 2, 1, 9, 11, 9, 8, 11, -1>>,
      <<3, 10, 1, 11, 10, 3, -1>>, <<0, 10, 1, 0, 8, 10, 8, 11, 10, -1>>, <<3, 9, 0, 3, 11, 9, 11, 10, 9, -1>>, <<9, 8, 10, 10, 8, 11, -1>>,
      <<4, 7, 8, -1>>, <<4, 3, 0, 7, 3, 4, -1>>, <<0, 1, 9, 8, 4, 7, -1>>, <<4, 1, 9, 4, 7, 1, 7, 3, 1, -1>>,
      <<1, 2, 10, 8, 4, 7, -1>>, <<3, 4, 7, 3, 0, 4, 1, 2, 10, -1>>, <<9, 2, 10, 9, 0, 2, 8, 4, 7, -1>>, <<2, 10, 9, 2, 9, 7, 2, 7, 3, 7, 9, 4, -1>>,
      <<8, 4, 7, 3, 11, 2, -1>>, <<11, 4, 7, 11, 2, 4, 2, 0, 4, -1>>, <<9, 0, 1, 8, 4, 7, 2, 3, 11, -1>>, <<4, 7, 11, 9, 4, 11, 9, 11, 2, 9, 2, 1, -1>>,
      <<3, 10, 1, 3, 11, 10, 7, 8, 4, -1>>, <<1, 11, 10, 1, 4, 11, 1, 0, 4, 7, 11, 4, -1>>, <<4, 7, 8, 9, 0, 11, 9, 11, 10, 11, 0, 3, -1>>, <<4, 7, 11, 4, 11, 9, 9, 11, 10, -1>>,
      <<9, 5, 4, -1>>, <<9, 5, 4, 0, 8, 3, -1>>, <<0, 5, 4, 1, 5, 0, -1>>, <<8, 5, 4, 8, 3, 5, 3, 1, 5, -1>>,
      <<1, 2, 10, 9, 5, 4, -1>>, <<3, 0, 8, 1, 2, 10, 4, 9, 5, -1>>, <<5, 2, 10, 5, 4, 2, 4, 0, 2, -1>>, <<2, 10, 5, 3, 2, 5, 3, 5, 4, 3, 4, 8, -1>>,
      <<9, 5, 4, 2, 3, 11, -1>>, <<0, 11, 2, 0, 8, 11, 4, 9, 5, -1>>, <<0, 5, 4, 0, 1, 5, 2, 3, 11, -1>>, <<2, 1, 5, 2, 5, 8, 2, 8, 11, 4, 8, 5, -1>>,
      <<10, 3, 11, 10, 1, 3, 9, 5, 4, -1>>, <<4, 9, 5, 0, 8, 1, 8, 10, 1, 8, 11, 10, -1>>, <<5, 4, 0, 5, 0, 11, 5, 11, 10, 11, 0, 3, -1>>, <<5, 4, 8, 5, 8, 10, 10, 8, 11, -1>>,
      <<9, 7, 8, 5, 7, 9, -1>>, <<9, 3, 0, 9, 5, 3, 5, 7, 3, -1>>, <<0, 7, 8, 0, 1, 7, 1, 5, 7, -1>>, <<1, 5, 3, 3, 5, 7, -1>>,
      <<9, 7, 8, 9, 5, 7, 10, 1, 2, -1>>, <<10, 1, 2, 9, 5, 0, 5, 3, 0, 5, 7, 3, -1>>, <<8, 0, 2, 8, 2, 5, 8, 5, 7, 10, 5, 2, -1>>, <<2, 10, 5, 2, 5, 3, 3, 5, 7, -1>>,
      <<7, 9, 5, 7, 8, 9, 3, 11, 2, -1>>, <<9, 5, 7, 9, 7, 2, 9, 2, 0, 2, 7, 11, -1>>, <<2, 3, 11, 0, 1, 8, 1, 7, 8, 1, 5, 7, -1>>, <<11, 2, 1, 11, 1, 7, 7, 1, 5, -1>>,
      <<9, 5, 8, 8, 5, 7, 10, 1, 3, 10, 3, 11, -1>>, <<5, 7, 0, 5, 0, 9, 7, 11, 0, 1, 0, 10, 11, 10, 0, -1>>, <<11, 10, 0, 11, 0, 3, 10, 5, 0, 8, 0, 7, 5, 7, 0, -1>>, <<11, 10, 5, 7, 11, 5, -1>>,
      <<10, 6, 5, -1>>, <<0, 8, 3, 5, 10, 6, -1>>, <<9, 0, 1, 5, 10, 6, -1>>, <<1, 8, 3, 1, 9, 8, 5, 10, 6, -1>>,
      <<1, 6, 5, 2, 6, 1, -1>>, <<1, 6, 5, 1, 2, 6, 3, 0, 8, -1>>, <<9, 6, 5, 9, 0, 6, 0, 2, 6, -1>>, <<5, 9, 8, 5, 8, 2, 5, 2, 6, 3, 2, 8, -1>>,
      <<2, 3, 11, 10, 6, 5, -1>>, <<11, 0, 8, 11, 2, 0, 10, 6, 5, -1>>, <<0, 1, 9, 2, 3, 11, 5, 10, 6, -1>>, <<5, 10, 6, 1, 9, 2, 9, 11, 2, 9, 8, 11, -1>>,
      <<6, 3, 11, 6, 5, 3, 5, 1, 3, -1>>, <<0, 8, 11, 0, 11, 5, 0, 5, 1, 5, 11, 6, -1>>, <<3, 11, 6, 0, 3, 6, 0, 6, 5, 0, 5, 9, -1>>, <<6, 5, 9, 6, 9, 11, 11, 9, 8, -1>>,
      <<5, 10, 6, 4, 7, 8, -1>>, <<4, 3, 0, 4, 7, 3, 6, 5, 10, -1>>, <<1, 9, 0, 5, 10, 6, 8, 4, 7, -1>>, <<10, 6, 5, 1, 9, 7, 1, 7, 3, 7, 9, 4, -1>>,
      <<6, 1, 2, 6, 5, 1, 4, 7, 8, -1>>, <<1, 2, 5, 5, 2, 6, 3, 0, 4, 3, 4, 7, -1>>, <<8, 4, 7, 9, 0, 5, 0, 6, 5, 0, 2, 6, -1>>, <<7, 3, 9, 7, 9, 4, 3, 2, 9, 5, 9, 6, 2, 6, 9, -1>>,
      <<3, 11, 2, 7, 8, 4, 10, 6, 5, -1>>, <<5, 10, 6, 4, 7, 2, 4, 2, 0, 2, 7, 11, -1>>, <<0, 1, 9, 4, 7, 8, 2, 3, 11, 5, 10, 6, -1>>, <<9, 2, 1, 9, 11, 2, 9, 4, 11, 7, 11, 4, 5, 10, 6, -1>>,
      <<8, 4, 7, 3, 11, 5, 3, 5, 1, 5, 11, 6, -1>>, <<5, 1, 11, 5, 11, 6, 1, 0, 11, 7, 11, 4, 0, 4, 11, -1>>, <<0, 5, 9, 0, 6, 5, 0, 3, 6, 11, 6, 3, 8, 4, 7, -1>>, <<6, 5, 9, 6, 9, 11, 4, 7, 9, 7, 11, 9, -1>>,
      <<10, 4, 9, 6, 4, 10, -1>>, <<4, 10, 6, 4, 9, 10, 0, 8, 3, -1>>, <<10, 0, 1, 10, 6, 0, 6, 4, 0, -1>>, <<8, 3, 1, 8, 1, 6, 8, 6, 4, 6, 1, 10, -1>>,
      <<1, 4, 9, 1, 2, 4, 2, 6, 4, -1>>, <<3, 0, 8, 1, 2, 9, 2, 4, 9, 2, 6, 4, -1>>, <<0, 2, 4, 4, 2, 6, -1>>, <<8, 3, 2, 8, 2, 4, 4, 2, 6, -1>>,
      <<10, 4, 9, 10, 6, 4, 11, 2, 3, -1>>, <<0, 8, 2, 2, 8, 11, 4, 9, 10, 4, 10, 6, -1>>, <<3, 11, 2, 0, 1, 6, 0, 6, 4, 6, 1, 10, -1>>, <<6, 4, 1, 6, 1, 10, 4, 8, 1, 2, 1, 11, 8, 11, 1, -1>>,
      <<9, 6, 4, 9, 3, 6, 9, 1, 3, 11, 6, 3, -1>>, <<8, 11, 1, 8, 1, 0, 11, 6, 1, 9, 1, 4, 6, 4, 1, -1>>, <<3, 11, 6, 3, 6, 0, 0, 6, 4, -1>>, <<6, 4, 8, 11, 6, 8, -1>>,
      <<7, 10, 6, 7, 8, 10, 8, 9, 10, -1>>, <<0, 7, 3, 0, 10, 7, 0, 9, 10, 6, 7, 10, -1>>, <<10, 6, 7, 1, 10, 7, 1, 7, 8, 1, 8, 0, -1>>, <<10, 6, 7, 10, 7, 1, 1, 7, 3, -1>>,
      <<1, 2, 6, 1, 6, 8, 1, 8, 9, 8, 6, 7, -1>>, <<2, 6, 9, 2, 9, 1, 6, 7, 9, 0, 9, 3, 7, 3, 9, -1>>, <<7, 8, 0, 7, 0, 6, 6, 0, 2, -1>>, <<7, 3, 2, 6, 7, 2, -1>>,
      <<2, 3, 11, 10, 6, 8, 10, 8, 9, 8, 6, 7, -1>>, <<2, 0, 7, 2, 7, 11, 0, 9, 7, 6, 7, 10, 9, 10, 7, -1>>, <<1, 8, 0, 1, 7, 8, 1, 10, 7, 6, 7, 10, 2, 3, 11, -1>>, <<11, 2, 1, 11, 1, 7, 10, 6, 1, 6, 7, 1, -1>>,
      <<8, 9, 6, 8, 6, 7, 9, 1, 6, 11, 6, 3, 1, 3, 6, -1>>, <<0, 9, 1, 11, 6, 7, -1>>, <<7, 8, 0, 7, 0, 6, 3, 11, 0, 11, 6, 0, -1>>, <<7, 11, 6, -1>>,
      <<7, 6, 11, -1>>, <<3, 0, 8, 11, 7, 6, -1>>, <<0, 1, 9, 11, 7, 6, -1>>, <<8, 1, 9, 8, 3, 1, 11, 7, 6, -1>>,
      <<10, 1, 2, 6, 11, 7, -1>>, <<1, 2, 10, 3, 0, 8, 6, 11, 7, -1>>, <<2, 9, 0, 2, 10, 9, 6, 11, 7, -1>>, <<6, 11, 7, 2, 10, 3, 10, 8, 3, 10, 9, 8, -1>>,
      <<7, 2, 3, 6, 2, 7, -1>>, <<7, 0, 8, 7, 6, 0, 6, 2, 0, -1>>, <<2, 7, 6, 2, 3, 7, 0, 1, 9, -1>>, <<1, 6, 2, 1, 8, 6, 1, 9, 8, 8, 7, 6, -1>>,
      <<10, 7, 6, 10, 1, 7, 1, 3, 7, -1>>, <<10, 7, 6, 1, 7, 10, 1, 8, 7, 1, 0, 8, -1>>, <<0, 3, 7, 0, 7, 10, 0, 10, 9, 6, 10, 7, -1>>, <<7, 6, 10, 7, 10, 8, 8, 10, 9, -1>>,
      <<6, 8, 4, 11, 8, 6, -1>>, <<3, 6, 11, 3, 0, 6, 0, 4, 6, -1>>, <<8, 6, 11, 8, 4, 6, 9, 0, 1, -1>>, <<9, 4, 6, 9, 6, 3, 9, 3, 1, 11, 3, 6, -1>>,
      <<6, 8, 4, 6, 11, 8, 2, 10, 1, -1>>, <<1, 2, 10, 3, 0, 11, 0, 6, 11, 0, 4, 6, -1>>, <<4, 11, 8, 4, 6, 11, 0, 2, 9, 2, 10, 9, -1>>, <<10, 9, 3, 10, 3, 2, 9, 4, 3, 11, 3, 6, 4, 6, 3, -1>>,
      <<8, 2, 3, 8, 4, 2, 4, 6, 2, -1>>, <<0, 4, 2, 4, 6, 2, -1>>, <<1, 9, 0, 2, 3, 4, 2, 4, 6, 4, 3, 8, -1>>, <<1, 9, 4, 1, 4, 2, 2, 4, 6, -1>>,
      <<8, 1, 3, 8, 6, 1, 8, 4, 6, 6, 10, 1, -1>>, <<10, 1, 0, 10, 0, 6, 6, 0, 4, -1>>, <<4, 6, 3, 4, 3, 8, 6, 10, 3, 0, 3, 9, 10, 9, 3, -1>>, <<10, 9, 4, 6, 10, 4, -1>>,
      <<4, 9, 5, 7, 6, 11, -1>>, <<0, 8, 3, 4, 9, 5, 11, 7, 6, -1>>, <<5, 0, 1, 5, 4, 0, 7, 6, 11, -1>>, <<11, 7, 6, 8, 3, 4, 3, 5, 4, 3, 1, 5, -1>>,
      <<9, 5, 4, 10, 1, 2, 7, 6, 11, -1>>, <<6, 11, 7, 1, 2, 10, 0, 8, 3, 4, 9, 5, -1>>, <<7, 6, 11, 5, 4, 10, 4, 2, 10, 4, 0, 2, -1>>, <<3, 4, 8, 3, 5, 4, 3, 2, 5, 10, 5, 2, 11, 7, 6, -1>>,
      <<7, 2, 3, 7, 6, 2, 5, 4, 9, -1>>, <<9, 5, 4, 0, 8, 6, 0, 6, 2, 6, 8, 7, -1>>, <<3, 6, 2, 3, 7, 6, 1, 5, 0, 5, 4, 0, -1>>, <<6, 2, 8, 6, 8, 7, 2, 1, 8, 4, 8, 5, 1, 5, 8, -1>>,
      <<9, 5, 4, 10, 1, 6, 1, 7, 6, 1, 3, 7, -1>>, <<1, 6, 10, 1, 7, 6, 1, 0, 7, 8, 7, 0, 9, 5, 4, -1>>, <<4, 0, 10, 4, 10, 5, 0, 3, 10, 6, 10, 7, 3, 7, 10, -1>>, <<7, 6, 10, 7, 10, 8, 5, 4, 10, 4, 8, 10, -1>>,
      <<6, 9, 5, 6, 11, 9, 11, 8, 9, -1>>, <<3, 6, 11, 0, 6, 3, 0, 5, 6, 0, 9, 5, -1>>, <<0, 11, 8, 0, 5, 11, 0, 1, 5, 5, 6, 11, -1>>, <<6, 11, 3, 6, 3, 5, 5, 3, 1, -1>>,
      <<1, 2, 10, 9, 5, 11, 9, 11, 8, 11, 5, 6, -1>>, <<0, 11, 3, 0, 6, 11, 0, 9, 6, 5, 6, 9, 1, 2, 10, -1>>, <<11, 8, 5, 11, 5, 6, 8, 0, 5, 10, 5, 2, 0, 2, 5, -1>>, <<6, 11, 3, 6, 3, 5, 2, 10, 3, 10, 5, 3, -1>>,
      <<5, 8, 9, 5, 2, 8, 5, 6, 2, 3, 8, 2, -1>>, <<9, 5, 6, 9, 6, 0, 0, 6, 2, -1>>, <<1, 5, 8, 1, 8, 0, 5, 6, 8, 3, 8, 2, 6, 2, 8, -1>>, <<1, 5, 6, 2, 1, 6, -1>>,
      <<1, 3, 6, 1, 6, 10, 3, 8, 6, 5, 6, 9, 8, 9, 6, -1>>, <<10, 1, 0, 10, 0, 6, 9, 5, 0, 5, 6, 0, -1>>, <<0, 3, 8, 5, 6, 10, -1>>, <<10, 5, 6, -1>>,
      <<11, 5, 10, 7, 5, 11, -1>>, <<11, 5, 10, 11, 7, 5, 8, 3, 0, -1>>, <<5, 11, 7, 5, 10, 11, 1, 9, 0, -1>>, <<10, 7, 5, 10, 11, 7, 9, 8, 1, 8, 3, 1, -1>>,
      <<11, 1, 2, 11, 7, 1, 7, 5, 1, -1>>, <<0, 8, 3, 1, 2, 7, 1, 7, 5, 7, 2, 11, -1>>, <<9, 7, 5, 9, 2, 7, 9, 0, 2, 2, 11, 7, -1>>, <<7, 5, 2, 7, 2, 11, 5, 9, 2, 3, 2, 8, 9, 8, 2, -1>>,
      <<2, 5, 10, 2, 3, 5, 3, 7, 5, -1>>, <<8, 2, 0, 8, 5, 2, 8, 7, 5, 10, 2, 5, -1>>, <<9, 0, 1, 5, 10, 3, 5, 3, 7, 3, 10, 2, -1>>, <<9, 8, 2, 9, 2, 1, 8, 7, 2, 10, 2, 5, 7, 5, 2, -1>>,
      <<1, 3, 5, 3, 7, 5, -1>>, <<0, 8, 7, 0, 7, 1, 1, 7, 5, -1>>, <<9, 0, 3, 9, 3, 5, 5, 3, 7, -1>>, <<9, 8, 7, 5, 9, 7, -1>>,
      <<5, 8, 4, 5, 10, 8, 10, 11, 8, -1>>, <<5, 0, 4, 5, 11, 0, 5, 10, 11, 11, 3, 0, -1>>, <<0, 1, 9, 8, 4, 10, 8, 10, 11, 10, 4, 5, -1>>, <<10, 11, 4, 10, 4, 5, 11, 3, 4, 9, 4, 1, 3, 1, 4, -1>>,
      <<2, 5, 1, 2, 8, 5, 2, 11, 8, 4, 5, 8, -1>>, <<0, 4, 11, 0, 11, 3, 4, 5, 11, 2, 11, 1, 5, 1, 11, -1>>, <<0, 2, 5, 0, 5, 9, 2, 11, 5, 4, 5, 8, 11, 8, 5, -1>>, <<9, 4, 5, 2, 11, 3, -1>>,
      <<2, 5, 10, 3, 5, 2, 3, 4, 5, 3, 8, 4, -1>>, <<5, 10, 2, 5, 2, 4, 4, 2, 0, -1>>, <<3, 10, 2, 3, 5, 10, 3, 8, 5, 4, 5, 8, 0, 1, 9, -1>>, <<5, 10, 2, 5, 2, 4, 1, 9, 2, 9, 4, 2, -1>>,
      <<8, 4, 5, 8, 5, 3, 3, 5, 1, -1>>, <<0, 4, 5, 1, 0, 5, -1>>, <<8, 4, 5, 8, 5, 3, 9, 0, 5, 0, 3, 5, -1>>, <<9, 4, 5, -1>>,
      <<4, 11, 7, 4, 9, 11, 9, 10, 11, -1>>, <<0, 8, 3, 4, 9, 7, 9, 11, 7, 9, 10, 11, -1>>, <<1, 10, 11, 1, 11, 4, 1, 4, 0, 7, 4, 11, -1>>, <<3, 1, 4, 3, 4, 8, 1, 10, 4, 7, 4, 11, 10, 11, 4, -1>>,
      <<4, 11, 7, 9, 11, 4, 9, 2, 11, 9, 1, 2, -1>>, <<9, 7, 4, 9, 11, 7, 9, 1, 11, 2, 11, 1, 0, 8, 3, -1>>, <<11, 7, 4, 11, 4, 2, 2, 4, 0, -1>>, <<11, 7, 4, 11, 4, 2, 8, 3, 4, 3, 2, 4, -1>>,
      <<2, 9, 10, 2, 7, 9, 2, 3, 7, 7, 4, 9, -1>>, <<9, 10, 7, 9, 7, 4, 10, 2, 7, 8, 7, 0, 2, 0, 7, -1>>, <<3, 7, 10, 3, 10, 2, 7, 4, 10, 1, 10, 0, 4, 0, 10, -1>>, <<1, 10, 2, 8, 7, 4, -1>>,
      <<4, 9, 1, 4, 1, 7, 7, 1, 3, -1>>, <<4, 9, 1, 4, 1, 7, 0, 8, 1, 8, 7, 1, -1>>, <<4, 0, 3, 7, 4, 3, -1>>, <<4, 8, 7, -1>>,
      <<9, 10, 8, 10, 11, 8, -1>>, <<3, 0, 9, 3, 9, 11, 11, 9, 10, -1>>, <<0, 1, 10, 0, 10, 8, 8, 10, 11, -1>>, <<3, 1, 10, 11, 3, 10, -1>>,
      <<1, 2, 11, 1, 11, 9, 9, 11, 8, -1>>, <<3, 0, 9, 3, 9, 11, 1, 2, 9, 2, 11, 9, -1>>, <<0, 2, 11, 8, 0, 11, -1>>, <<3, 2, 11, -1>>,
      <<2, 3, 8, 2, 8, 10, 10, 8, 9, -1>>, <<9, 10, 2, 0, 9, 2, -1>>, <<2, 3, 8, 2, 8, 10, 0, 1, 8, 1, 10, 8, -1>>, <<1, 10, 2, -1>>,
      <<1, 3, 8, 9, 1, 8, -1>>, <<0, 9, 1, -1>>, <<0, 3, 8, -1>>, <<-1>>
    >>

\* generateMesh, lines 17-24: the 8 corner values of the cube at (x, y, z)
cubeValues(chunk, coord, x, y, z) ==
    [i \in 1..8 |-> ChunkSdf(chunk, coord, x + cornerOffsets[i][1],
                             y + cornerOffsets[i][2], z + cornerOffsets[i][3])]

\* a cubeIndex that looks at the corners 0..3 only
cubeIndexOfLowCorners(values) ==
    LET bit(i) == IF values[i + 1] < isoLevel THEN 2 ^ i ELSE 0
    IN  bit(0) + bit(1) + bit(2) + bit(3)

\* generateMesh, lines 27-32: bit i is set iff corner i is below isoLevel
cubeIndex(values) ==
    LET bit(i) == IF values[i + 1] < isoLevel THEN 2 ^ i ELSE 0
    IN  bit(0) + bit(1) + bit(2) + bit(3) + bit(4) + bit(5) + bit(6) + bit(7)

\* getCornerPos
getCornerPos(x, y, z, corner, coord) ==
    Add(chunkToWorldPos(coord),
        <<(x + cornerOffsets[corner + 1][1]) * VOXEL_SIZE,
          (y + cornerOffsets[corner + 1][2]) * VOXEL_SIZE,
          (z + cornerOffsets[corner + 1][3]) * VOXEL_SIZE>>)

\* interpolate: the crossing point of an edge; values nearer than 0.00001 are equal
\* values of the model
interpolate(val1, val2, pos1, pos2) ==
    IF isoLevel - val1 = 0 THEN pos1
    ELSE IF isoLevel - val2 = 0 THEN pos2
    ELSE IF val1 - val2 = 0 THEN pos1
    ELSE Add(pos1, Scale(Add(pos2, Neg(pos1)), Quot((isoLevel - val1) * 1000, val2 - val1)))

\* generateMesh, lines 39-71: vertList, with the entries the code sets; the other
\* entries stay uninitialized, and no row of triTable names them
vertList(values, x, y, z, coord, edges) ==
    [e \in edges |->
        interpolate(values[EdgeCorners[e + 1][1] + 1], values[EdgeCorners[e + 1][2] + 1],
                    getCornerPos(x, y, z, EdgeCorners[e + 1][1], coord),
                    getCornerPos(x, y, z, EdgeCorners[e + 1][2], coord))]

\* MarchingCubes::sampleSDF, lines 166-188, for a clamped position
trilinear(chunk, coord, x0, y0, z0, x1, y1, z1, fx, fy, fz) ==
    Lerp(Lerp(Lerp(ChunkSdf(chunk, coord, x0, y0, z0), ChunkSdf(chunk, coord, x1, y0, z0), fx),
              Lerp(ChunkSdf(chunk, coord, x0, y1, z0), ChunkSdf(chunk, coord, x1, y1, z0), fx),
              fy),
         Lerp(Lerp(ChunkSdf(chunk, coord, x0, y0, z1), ChunkSdf(chunk, coord, x1, y0, z1), fx),
              Lerp(ChunkSdf(chunk, coord, x0, y1, z1), ChunkSdf(chunk, coord, x1, y1, z1), fx),
              fy),
         fz)

\* MarchingCubes::sampleSDF, lines 160-163: the position clamped to 0 and
\* CHUNK_SIZE - 1.001 voxels, which is the last millimetre below the high edge
clampLocal(p) == Clamp(p, 0, (CHUNK_SIZE - 1) * VOXEL_SIZE - 1)

sampleAt(chunk, coord, px, py, pz) ==
    trilinear(chunk, coord, px \div VOXEL_SIZE, py \div VOXEL_SIZE, pz \div VOXEL_SIZE,
              Min2(px \div VOXEL_SIZE + 1, CHUNK_SIZE - 1),
              Min2(py \div VOXEL_SIZE + 1, CHUNK_SIZE - 1),
              Min2(pz \div VOXEL_SIZE + 1, CHUNK_SIZE - 1),
              px % VOXEL_SIZE, py % VOXEL_SIZE, pz % VOXEL_SIZE)

\* MarchingCubes::sampleSDF: the trilinear sample of one chunk at a local position
MarchingCubes_sampleSDF(chunk, coord, localPos) ==
    sampleAt(chunk, coord, clampLocal(localPos[1]), clampLocal(localPos[2]),
             clampLocal(localPos[3]))

\* calculateNormal, lines 147-155
normalize(normal) == IF Length(normal) > 0 THEN Unit(normal) ELSE <<0, 1000, 0>>

\* calculateNormal: central differences at half a voxel
calculateNormal(chunk, coord, localPos) ==
    normalize(
        <<MarchingCubes_sampleSDF(chunk, coord, Add(localPos, <<VOXEL_SIZE \div 2, 0, 0>>))
            - MarchingCubes_sampleSDF(chunk, coord, Add(localPos, <<-(VOXEL_SIZE \div 2), 0, 0>>)),
          MarchingCubes_sampleSDF(chunk, coord, Add(localPos, <<0, VOXEL_SIZE \div 2, 0>>))
            - MarchingCubes_sampleSDF(chunk, coord, Add(localPos, <<0, -(VOXEL_SIZE \div 2), 0>>)),
          MarchingCubes_sampleSDF(chunk, coord, Add(localPos, <<0, 0, VOXEL_SIZE \div 2>>))
            - MarchingCubes_sampleSDF(chunk, coord, Add(localPos, <<0, 0, -(VOXEL_SIZE \div 2)>>))>>)

\* generateMesh, lines 91-93: normal * 0.5 + 0.5
colorOf(normal) == <<Quot(normal[1], 2) + 500, Quot(normal[2], 2) + 500, Quot(normal[3], 2) + 500>>

\* generateMesh, lines 77-93: a vertex of a triangle
MarchingCubesVertex(chunk, coord, pos) ==
    [pos |-> pos,
     color |-> colorOf(calculateNormal(chunk, coord, Add(pos, Neg(chunkToWorldPos(coord)))))]

\* generateMesh, lines 74-98: the loop over the row of triTable, three entries at
\* a time, up to a -1 at the place of a triangle's first edge
RECURSIVE triangles(_, _, _, _, _)
triangles(chunk, coord, row, verts, i) ==
    IF row[i + 1] = -1
    THEN <<>>
    ELSE <<MarchingCubesVertex(chunk, coord, verts[row[i + 1]]),
           MarchingCubesVertex(chunk, coord, verts[row[i + 2]]),
           MarchingCubesVertex(chunk, coord, verts[row[i + 3]])>>
         \o triangles(chunk, coord, row, verts, i + 3)

\* generateMesh, lines 34-98, for a cube whose cubeIndex is index
cubeTriangles(chunk, coord, x, y, z, values, index) ==
    IF edgeTable(index) = {}
    THEN <<>>
    ELSE triangles(chunk, coord, triTable[index + 1],
                   vertList(values, x, y, z, coord, edgeTable(index)), 0)

cubeMesh(chunk, coord, x, y, z, values) ==
    cubeTriangles(chunk, coord, x, y, z, values, cubeIndex(values))

\* generateMesh, lines 15-98: the vertices the cube at (x, y, z) adds
cubeVertices(chunk, coord, x, y, z) ==
    cubeMesh(chunk, coord, x, y, z, cubeValues(chunk, coord, x, y, z))

\* generateMesh, lines 12-14: the cubes in the order x, y, z, the n-th cube on
RECURSIVE meshFrom(_, _, _)
meshFrom(chunk, coord, n) ==
    IF n >= (CHUNK_SIZE - 1) * (CHUNK_SIZE - 1) * (CHUNK_SIZE - 1)
    THEN <<>>
    ELSE cubeVertices(chunk, coord, n \div ((CHUNK_SIZE - 1) * (CHUNK_SIZE - 1)),
                      (n \div (CHUNK_SIZE - 1)) % (CHUNK_SIZE - 1), n % (CHUNK_SIZE - 1))
         \o meshFrom(chunk, coord, n + 1)

\* generateMesh of the chunk whose coordinate is coord
generateMesh(chunk, coord) == meshFrom(chunk, coord, 0)

(***************************************************************************)
(* The generation and upload of chunks.  Their code is not among the        *)
(* sources; they are modelled from the specification (sections 4.2 and 5):  *)
(* a task holds a pointer to a chunk of the store; the tick thread queues a *)
(* generation by setting generationQueued; a worker sets                    *)
(* generationInProgress before it clears generationQueued, fills the sample *)
(* buffer and clears generationInProgress at completion; the tick thread    *)
(* starts an upload by setting uploadInProgress, the upload reads the       *)
(* sample buffer and clears the flag at completion.                         *)
(* A task's freed field records that the store has removed the chunk the    *)
(* task points to.                                                          *)
(***************************************************************************)
Task(kind, coord, chunk, pc) ==
    [kind |-> kind, coord |-> coord, addr |-> chunk.addr, pc |-> pc, freed |-> FALSE]

\* the pointers the tasks hold
Held(ts) == {Ptr(t.coord, t.addr) : t \in ts}

\* the tasks after the store became after: a task whose chunk is no longer stored
\* points to freed memory
MarkFreed(ts, after) ==
    {[t EXCEPT !.freed = t.freed \/ ~(t.coord \in DOMAIN after /\ after[t.coord].addr = t.addr)] :
        t \in ts}

\* the store with one flag of the chunk a task points to set; a write through a
\* dangling pointer changes no chunk of the store
SetFlag(store, t, flag, value) ==
    IF t.freed THEN store
    ELSE [store EXCEPT ![t.coord] = [store[t.coord] EXCEPT ![flag] = value]]

\* VolumeGenerator::generateChunk fills every sample with generateSDF of its world
\* position: the buffer then holds the generator's field
generateChunk(chunk) == [chunk EXCEPT !.sdf = "terrain"]

(***************************************************************************)
(* Inputs.                                                                  *)
(***************************************************************************)
Radii == 0..MaxRadius

\* observer positions: a millimetre below and a millimetre above the boundary
\* between the chunks <<-1, -1, -1>> and <<-1, 0, -1>>, which are vertical
\* neighbours
HomePosition == <<-1, -1, -1>>

CameraPositions == {HomePosition, <<-1, 1, -1>>}

\* a coordinate that is outside every load window and every unload radius of
\* these positions
FarCoord == <<-1, -1, MaxRadius>>

\* the coordinates getOrCreateChunk is called with
GetCoords == {worldToChunkCoord(HomePosition), FarCoord}

\* the coordinates whose chunks are generated and uploaded
WorkCoords == {FarCoord}

\* the chunks the sampler is tried on: a chunk and its neighbours on the high x
\* and the high y side
SampleChunk == <<-1, -1, -1>>

SampleCoords == {SampleChunk, <<0, -1, -1>>, <<-1, 0, -1>>}

\* the world positions of all samples of SampleChunk, its high edges included
GridPositions ==
    {voxelWorldPos(SampleChunk, x, y, z) : x \in 0..CHUNK_CUBES, y \in 0..CHUNK_CUBES,
                                           z \in 0..CHUNK_CUBES}

\* positions between the samples of SampleChunk and a position in a chunk that is
\* never stored
ProbePositions ==
    GridPositions \cup {Add(chunkToWorldPos(SampleChunk), <<250, 125, 375>>),
                        Add(chunkToWorldPos(SampleChunk), <<1, 499, 1>>),
                        <<1, 1, 1>>}

\* the chunk the extractor is tried on: its lowest samples are at y = 0
MeshCoords == {<<-1, 0, -1>>}

\* the fields the buffers of the extractor's chunks are filled with
MeshFields == {"y", "minusY", "ramp", "solid"}

\* the sets of corners whose samples are below the threshold
CornerSets == SUBSET (0..7)

\* the frame times of the ticks with friction, in milliseconds
FrictionDeltaTimes == {50, 100}

\* the horizontal velocities the camera has when the keys are released
StartVelocities == {<<vx, 0, vz>> : vx \in {0, 37, 8000}, vz \in {0, 1, -5000}}

\* the number of ticks within which friction stops the camera
FrictionBound == 10

\* the states of the N key and of the space key at a tick
ToggleKeySets == SUBSET {"N", "SPACE"}

\* the frame time, in milliseconds
DeltaTimes == {100}

\* the keys processKeyboard finds pressed
KeySets == {{}, {"N"}, {"SPACE"}, {"W"}}

\* the camera is moved while it is within WorldLimit of the origin on every axis
WorldLimit == 3000

InWorld(pos) == \A i \in 1..3 : abs(pos[i]) <= WorldLimit

\* the camera starts where its first tentative position has the feet at y = 0: half
\* a player height and the fall of one tick of 100 ms above it, in the middle of
\* a voxel of chunk <<0, 0, 0>>
StartPositions == {<<250, 1100, 250>>}

\* a position in chunk <<0, 0, 0>>
WorldCentre == <<250, 250, 250>>

\* the chunks updateChunks loads around WorldCentre with loadRadius 1, the buffer
\* of each filled with the field
FlatWorld(field) ==
    [c \in DOMAIN updateChunks(EmptyStore, {}, WorldCentre, 1, 1).chunks |->
        [VolumeChunk(c, 1) EXCEPT !.sdf = field]]

\* what a tick that probes nothing keeps of its head and body probes
NoBody ==
    [sdfAtHead |-> 0, sdfAtCenter |-> 0, wallNormal |-> <<0, 0, 0>>,
     before |-> <<0, 0, 0>>, slideVel |-> <<0, 0, 0>>, after |-> <<0, 0, 0>>]

NoCall ==
    [op |-> "none", coord |-> <<0, 0, 0>>, again |-> FALSE, cameraPos |-> <<0, 0, 0>>,
     loadRadius |-> 0, unloadRadius |-> 0, ret |-> NullPtr, newChunks |-> <<>>,
     worldPos |-> <<0, 0, 0>>, value |-> 0, keys |-> {}, deltaTime |-> 0,
     probed |-> FALSE, slopeAngle |-> 0, jumpsBefore |-> 0, vertices |-> <<>>,
     removed |-> {}, keysBefore |-> {}, noclipBefore |-> FALSE, jumped |-> FALSE,
     body |-> NoBody]

(***************************************************************************)
(* The tick thread's calls.  lastCall.again tells that the call repeats the *)
(* call before it.                                                          *)
(***************************************************************************)
CallGetOrCreateChunk(coord) ==
    LET r == getOrCreateChunk(chunks, Held(tasks), coord)
    IN  /\ chunks' = r.chunks
        /\ lastCall' = [NoCall EXCEPT !.op = "getOrCreateChunk", !.coord = coord,
                                      !.again = (lastCall.op = "getOrCreateChunk"
                                                    /\ lastCall.coord = coord),
                                      !.ret = r.ret]
        /\ tasks' = MarkFreed(tasks, r.chunks)
        /\ UNCHANGED <<camera, frames, prevKeys>>

\* the store and the call record after updateChunks has returned r
UpdateReturns(r, cameraPos, loadRadius, unloadRadius) ==
    /\ chunks' = r.chunks
    /\ lastCall' = [NoCall EXCEPT !.op = "updateChunks", !.cameraPos = cameraPos,
                                  !.loadRadius = loadRadius,
                                  !.unloadRadius = unloadRadius,
                                  !.newChunks = r.newChunks,
                                  !.removed = r.removed]
    /\ tasks' = MarkFreed(tasks, r.chunks)
    /\ UNCHANGED <<camera, frames, prevKeys>>

CallUpdateChunks(cameraPos, loadRadius, unloadRadius) ==
    UpdateReturns(updateChunks(chunks, Held(tasks), cameraPos, loadRadius, unloadRadius),
                  cameraPos, loadRadius, unloadRadius)

CallClear ==
    /\ chunks' = clear(chunks)
    /\ lastCall' = [NoCall EXCEPT !.op = "clear"]
    /\ tasks' = MarkFreed(tasks, clear(chunks))
    /\ UNCHANGED <<camera, frames, prevKeys>>

(***************************************************************************)
(* The steps of generation and upload.                                      *)
(***************************************************************************)
TasksOf(kind) == {t \in tasks : t.kind = kind}

\* the tick thread queues the generation of a stored chunk
QueueGeneration(coord) ==
    /\ coord \in DOMAIN chunks
    /\ \A t \in TasksOf("generate") : t.coord # coord
    /\ chunks' = [chunks EXCEPT ![coord].generationQueued = TRUE]
    /\ tasks' = tasks \cup {Task("generate", coord, chunks[coord], "queued")}
    /\ lastCall' = NoCall
    /\ UNCHANGED <<camera, frames, prevKeys>>

\* a worker takes a queued generation
ClaimGeneration(t) ==
    /\ t.kind = "generate" /\ t.pc = "queued"
    /\ chunks' = SetFlag(chunks, t, "generationInProgress", TRUE)
    /\ tasks' = (tasks \ {t}) \cup {[t EXCEPT !.pc = "claimed"]}
    /\ lastCall' = NoCall
    /\ UNCHANGED <<camera, frames, prevKeys>>

\* and then starts to write the chunk's sample buffer
StartGeneration(t) ==
    /\ t.kind = "generate" /\ t.pc = "claimed"
    /\ chunks' = SetFlag(chunks, t, "generationQueued", FALSE)
    /\ tasks' = (tasks \ {t}) \cup {[t EXCEPT !.pc = "running"]}
    /\ lastCall' = NoCall
    /\ UNCHANGED <<camera, frames, prevKeys>>

\* the worker has filled the buffer
FinishGeneration(t) ==
    /\ t.kind = "generate" /\ t.pc = "running"
    /\ chunks' = IF t.freed THEN chunks
                 ELSE [chunks EXCEPT ![t.coord] =
                          [generateChunk(chunks[t.coord]) EXCEPT !.generationInProgress = FALSE]]
    /\ tasks' = tasks \ {t}
    /\ lastCall' = NoCall
    /\ UNCHANGED <<camera, frames, prevKeys>>

\* the tick thread starts the upload of a stored chunk, which reads the sample
\* buffer from here on
StartUpload(coord) ==
    /\ coord \in DOMAIN chunks
    /\ \A t \in TasksOf("upload") : t.coord # coord
    /\ chunks' = [chunks EXCEPT ![coord].uploadInProgress = TRUE]
    /\ tasks' = tasks \cup {Task("upload", coord, chunks[coord], "running")}
    /\ lastCall' = NoCall
    /\ UNCHANGED <<camera, frames, prevKeys>>

FinishUpload(t) ==
    /\ t.kind = "upload" /\ t.pc = "running"
    /\ chunks' = SetFlag(chunks, t, "uploadInProgress", FALSE)
    /\ tasks' = tasks \ {t}
    /\ lastCall' = NoCall
    /\ UNCHANGED <<camera, frames, prevKeys>>

(***************************************************************************)
(* The sampler and the camera.                                              *)
(***************************************************************************)
\* a buffer is filled with a synthetic field
CallFillChunk(coord, field) ==
    /\ coord \in DOMAIN chunks
    /\ chunks' = FillChunk(chunks, coord, field)
    /\ lastCall' = NoCall
    /\ UNCHANGED <<tasks, camera, frames, prevKeys>>

\* sampleSDF takes the ChunkManager by const reference and looks the chunk up
\* with find: the store stays as it is
CallSampleSDF(worldPos) ==
    /\ lastCall' = [NoCall EXCEPT !.op = "sampleSDF", !.worldPos = worldPos,
                                  !.value = sampleSDF(chunks, worldPos)]
    /\ UNCHANGED <<chunks, tasks, camera, frames, prevKeys>>

\* a buffer is filled with -0.5 at the corners in below and 0.5 at the others
CallFillCorners(coord, below) ==
    /\ coord \in DOMAIN chunks
    /\ chunks' = FillCorners(chunks, coord, below)
    /\ lastCall' = NoCall
    /\ UNCHANGED <<tasks, camera, frames, prevKeys>>

\* generateMesh takes the chunk by const reference
CallGenerateMesh(coord) ==
    /\ coord \in DOMAIN chunks
    /\ lastCall' = [NoCall EXCEPT !.op = "generateMesh", !.coord = coord,
                                  !.vertices = generateMesh(chunks[coord], coord)]
    /\ UNCHANGED <<chunks, tasks, camera, frames, prevKeys>>

CallProcessKeyboard(keys, deltaTime) ==
    /\ frames < MaxFrames /\ InWorld(camera.position)
    /\ camera' = processKeyboard(camera, keys, deltaTime)
    /\ lastCall' = [NoCall EXCEPT !.op = "processKeyboard", !.keys = keys,
                                  !.deltaTime = deltaTime,
                                  !.jumpsBefore = camera.jumpsRemaining,
                                  !.keysBefore = prevKeys,
                                  !.noclipBefore = camera.noclip,
                                  !.jumped = jumpCalled(camera, keys)]
    /\ frames' = frames + 1
    /\ prevKeys' = keys
    /\ UNCHANGED <<chunks, tasks>>

\* the head and body probes of a tick of updatePhysics
bodyOfGround(cam, ground, store) == bodyProbe(ground, afterHead(cam, ground, store), store)

bodyOf(cam, deltaTime, store) ==
    IF cam.noclip THEN NoBody ELSE bodyOfGround(cam, afterGround(cam, deltaTime, store), store)

\* lastCall keeps what the ground probe of the call found at the feet position, and
\* what its head and body probes found
CallUpdatePhysics(deltaTime) ==
    /\ frames < MaxFrames /\ InWorld(camera.position)
    /\ camera' = updatePhysics(camera, deltaTime, chunks)
    /\ lastCall' = [NoCall EXCEPT !.op = "updatePhysics", !.deltaTime = deltaTime,
                                  !.worldPos = feetPosition(camera, deltaTime),
                                  !.probed = (~camera.noclip
                                                /\ groundProbe(camera, deltaTime, chunks).probed),
                                  !.slopeAngle = groundProbe(camera, deltaTime, chunks).slopeAngle,
                                  !.jumpsBefore = camera.jumpsRemaining,
                                  !.body = bodyOf(camera, deltaTime, chunks)]
    /\ frames' = frames + 1
    /\ UNCHANGED <<chunks, tasks, prevKeys>>

CallJump ==
    /\ frames < MaxFrames
    /\ camera' = jump(camera)
    /\ lastCall' = [NoCall EXCEPT !.op = "jump", !.jumpsBefore = camera.jumpsRemaining]
    /\ frames' = frames + 1
    /\ UNCHANGED <<chunks, tasks, prevKeys>>

(***************************************************************************)
(* Specifications.                                                          *)
(***************************************************************************)
vars == <<chunks, lastCall, tasks, camera, frames, prevKeys>>

Init ==
    /\ chunks = EmptyStore
    /\ lastCall = NoCall
    /\ tasks = {}
    /\ camera = Camera(<<0, 20000, 10000>>)
    /\ frames = 0
    /\ prevKeys = {}

\* Spec: the store of an observer that stays in one chunk, with the generation and
\* the upload of a far chunk
Next ==
    \/ CallGetOrCreateChunk(FarCoord)
    \/ \E loadRadius \in Radii, unloadRadius \in Radii :
          CallUpdateChunks(HomePosition, loadRadius, unloadRadius)
    \/ \E coord \in WorkCoords : QueueGeneration(coord)
    \/ \E t \in tasks : ClaimGeneration(t)
    \/ \E t \in tasks : StartGeneration(t)
    \/ \E t \in tasks : FinishGeneration(t)
    \/ \E coord \in WorkCoords : StartUpload(coord)
    \/ \E t \in tasks : FinishUpload(t)

Spec == Init /\ [][Next]_vars

\* SpecStream: the tick thread alone, with an observer that moves between two chunks
NextStream ==
    \/ \E coord \in GetCoords : CallGetOrCreateChunk(coord)
    \/ \E cameraPos \in CameraPositions, loadRadius \in Radii, unloadRadius \in Radii :
          CallUpdateChunks(cameraPos, loadRadius, unloadRadius)

SpecStream == Init /\ [][NextStream]_vars

\* SpecClear: every store operation of the tick thread, clear among them,
\* interleaved with the generation and the upload of a chunk
NextClear ==
    \/ \E coord \in GetCoords : CallGetOrCreateChunk(coord)
    \/ \E unloadRadius \in {0, 1} : CallUpdateChunks(HomePosition, 0, unloadRadius)
    \/ CallClear
    \/ \E coord \in WorkCoords : QueueGeneration(coord)
    \/ \E t \in tasks : ClaimGeneration(t)
    \/ \E t \in tasks : StartGeneration(t)
    \/ \E t \in tasks : FinishGeneration(t)
    \/ \E coord \in WorkCoords : StartUpload(coord)
    \/ \E t \in tasks : FinishUpload(t)

SpecClear == Init /\ [][NextClear]_vars

\* SpecSampler: chunks are created and filled, and the field is sampled
NextSampler ==
    \/ \E coord \in SampleCoords : CallGetOrCreateChunk(coord)
    \/ \E coord \in SampleCoords, field \in SyntheticFields : CallFillChunk(coord, field)
    \/ \E worldPos \in ProbePositions : CallSampleSDF(worldPos)

SpecSampler == Init /\ [][NextSampler]_vars

\* SpecExtractor: a chunk of the store is filled, and its mesh is extracted
InitExtractor ==
    /\ \E coord \in MeshCoords : chunks = getOrCreateChunk(EmptyStore, {}, coord).chunks
    /\ lastCall = NoCall
    /\ tasks = {}
    /\ camera = Camera(<<0, 20000, 10000>>)
    /\ frames = 0
    /\ prevKeys = {}

NextExtractor ==
    \/ \E coord \in MeshCoords, field \in MeshFields : CallFillChunk(coord, field)
    \/ \E coord \in MeshCoords, below \in CornerSets : CallFillCorners(coord, below)
    \/ \E coord \in MeshCoords : CallGenerateMesh(coord)

SpecExtractor == InitExtractor /\ [][NextExtractor]_vars

\* the camera after its first tick over the ground y = 0, where it lands
GroundedCamera == updatePhysics(Camera(<<250, 1100, 250>>), 100, FlatWorld("minusY"))

\* SpecFriction: the camera stands on the flat ground y = 0 with a horizontal
\* velocity; the keys are released, or W is pressed, between the physics ticks
InitFriction ==
    /\ chunks = FlatWorld("minusY")
    /\ \E velocity \in StartVelocities : camera = [GroundedCamera EXCEPT !.velocity = velocity]
    /\ lastCall = NoCall
    /\ tasks = {}
    /\ frames = 0
    /\ prevKeys = {}

NextFriction ==
    \/ \E deltaTime \in FrictionDeltaTimes : CallProcessKeyboard({}, deltaTime)
    \/ \E deltaTime \in DeltaTimes : CallProcessKeyboard({"W"}, deltaTime)
    \/ \E deltaTime \in DeltaTimes : CallUpdatePhysics(deltaTime)

SpecFriction == InitFriction /\ [][NextFriction]_vars

\* SpecKeys: the camera over the flat ground y = 0, with the N key and the space
\* key pressed and released from tick to tick
InitKeys ==
    /\ chunks = FlatWorld("minusY")
    /\ \E start \in StartPositions : camera = Camera(start)
    /\ lastCall = NoCall
    /\ tasks = {}
    /\ frames = 0
    /\ prevKeys = {}

NextKeys ==
    \/ \E keys \in ToggleKeySets, deltaTime \in DeltaTimes : CallProcessKeyboard(keys, deltaTime)
    \/ \E deltaTime \in DeltaTimes : CallUpdatePhysics(deltaTime)

SpecKeys == InitKeys /\ [][NextKeys]_vars

\* the camera starts above the surface of the world, or inside its solid
GroundStarts == {<<250, 1100, 250>>, <<250, 200, 250>>}

\* SpecGround: the camera over or inside a world whose chunks hold the flat ground
\* y = 1.2, a walkable slope, a slope too steep to walk, or a cave 1.5 high
InitGround ==
    /\ \E start \in GroundStarts, field \in {"buried", "slope", "cliff", "cave"} :
          /\ chunks = FlatWorld(field)
          /\ camera = Camera(start)
    /\ lastCall = NoCall
    /\ tasks = {}
    /\ frames = 0
    /\ prevKeys = {}

NextGround ==
    \/ \E keys \in {{"W"}, {"SPACE"}}, deltaTime \in DeltaTimes :
          CallProcessKeyboard(keys, deltaTime)
    \/ \E deltaTime \in DeltaTimes : CallUpdatePhysics(deltaTime)

SpecGround == InitGround /\ [][NextGround]_vars

\* SpecCamera: the camera over a world whose chunks hold f = y or f = -y
InitCamera ==
    /\ \E start \in StartPositions, field \in {"y", "minusY"} :
          /\ chunks = FlatWorld(field)
          /\ camera = Camera(start)
    /\ lastCall = NoCall
    /\ tasks = {}
    /\ frames = 0
    /\ prevKeys = {}

NextCamera ==
    \/ \E keys \in KeySets, deltaTime \in DeltaTimes : CallProcessKeyboard(keys, deltaTime)
    \/ \E deltaTime \in DeltaTimes : CallUpdatePhysics(deltaTime)
    \/ CallJump

SpecCamera == InitCamera /\ [][NextCamera]_vars

(***************************************************************************)
(* Properties of the store.                                                 *)
(***************************************************************************)
AnyFlag(chunk) ==
    chunk.generationQueued \/ chunk.generationInProgress \/ chunk.uploadInProgress

CameraChunkOf(call) == worldToChunkCoord(call.cameraPos)

\* the coordinates within rx of centre on the x and z axes and within ry on the y axis
Box(centre, rx, ry) ==
    {<<x, y, z>> : x \in (centre[1] - rx)..(centre[1] + rx),
                   y \in (centre[2] - ry)..(centre[2] + ry),
                   z \in (centre[3] - rx)..(centre[3] + rx)}

UpdateReturned == lastCall.op = "updateChunks"

\* C1: a call of updateChunks removes no chunk that has one of its three flags
\* set: the chunk is stored under the same coordinate, as the same instance and
\* with the same contents, when the call returns, wherever the observer is
EvictionSafety ==
    [][lastCall'.op = "updateChunks" =>
          \A c \in DOMAIN chunks :
              AnyFlag(chunks[c]) => (c \in DOMAIN chunks' /\ chunks'[c] = chunks[c])]_vars

\* C1, witness: updateChunks has returned, and a chunk outside the unload radius
\* whose generation is in progress and whose upload is in progress is stored
EvictionSafetyWitness ==
    /\ UpdateReturned
    /\ \E c \in DOMAIN chunks :
          /\ abs(c[3] - CameraChunkOf(lastCall)[3]) > lastCall.unloadRadius
          /\ chunks[c].generationInProgress /\ chunks[c].uploadInProgress
          /\ ~chunks[c].generationQueued

\* C2: no generation that writes a sample buffer and no upload that reads one
\* works on a chunk that the store has removed, whatever the tick thread calls
\* (getOrCreateChunk, updateChunks, clear) in between the steps of the workers
NoWorkerOnRemovedChunk == \A t \in tasks : t.pc = "running" => ~t.freed

\* C3: a call getOrCreateChunk(c) that follows a call getOrCreateChunk(c) returns
\* the pointer the first call returned and leaves the store as it is
GetOrCreateIdempotent ==
    [][(lastCall'.op = "getOrCreateChunk" /\ lastCall'.again) =>
          (lastCall'.ret = lastCall.ret /\ chunks' = chunks)]_vars

\* C3, witness: getOrCreateChunk has been called twice in a row with the coordinate
\* of a chunk that the first call created
GetOrCreateIdempotentWitness ==
    /\ lastCall.op = "getOrCreateChunk" /\ lastCall.again
    /\ lastCall.coord \in DOMAIN chunks
    /\ lastCall.ret = Ptr(lastCall.coord, chunks[lastCall.coord].addr)

\* C4 as claimed: after updateChunks(pos, L, U) with U >= L every coordinate within
\* Chebyshev distance L of the observer's chunk is stored
ChebyshevCoverage ==
    (UpdateReturned /\ lastCall.unloadRadius >= lastCall.loadRadius) =>
        \A c \in Box(CameraChunkOf(lastCall), lastCall.loadRadius, lastCall.loadRadius) :
            c \in DOMAIN chunks

\* C4, amended: after updateChunks(pos, L, U) with U >= L every coordinate within L
\* of the observer's chunk on the x and z axes and within min(L, 1) on the y axis
\* is stored
StreamingCoverage ==
    (UpdateReturned /\ lastCall.unloadRadius >= lastCall.loadRadius) =>
        \A c \in Box(CameraChunkOf(lastCall), lastCall.loadRadius, Min2(lastCall.loadRadius, 1)) :
            c \in DOMAIN chunks

\* C4, witness: updateChunks has returned from a call with U >= L >= 2
StreamingCoverageWitness ==
    /\ UpdateReturned
    /\ lastCall.loadRadius >= 2 /\ lastCall.unloadRadius >= lastCall.loadRadius
    /\ Box(CameraChunkOf(lastCall), lastCall.loadRadius, 1) \subseteq DOMAIN chunks

WithinUnloadRadius(c, call) ==
    /\ abs(c[1] - CameraChunkOf(call)[1]) <= call.unloadRadius
    /\ abs(c[3] - CameraChunkOf(call)[3]) <= call.unloadRadius
    /\ abs(c[2] - CameraChunkOf(call)[2]) <= 2 * call.unloadRadius

\* C5 as claimed: after updateChunks(pos, L, U) with U >= L every stored coordinate
\* is within U of the observer's chunk on the x and z axes and within the vertical
\* unload radius 2U on the y axis
ResidentWithinUnloadRadius ==
    (UpdateReturned /\ lastCall.unloadRadius >= lastCall.loadRadius) =>
        \A c \in DOMAIN chunks : WithinUnloadRadius(c, lastCall)

\* C5, amended: after updateChunks(pos, L, U) with U >= L every stored coordinate
\* whose chunk has none of the three flags set is within U of the observer's chunk
\* on the x and z axes and within 2U on the y axis
UnflaggedResidentWithinUnloadRadius ==
    (UpdateReturned /\ lastCall.unloadRadius >= lastCall.loadRadius) =>
        \A c \in DOMAIN chunks : ~AnyFlag(chunks[c]) => WithinUnloadRadius(c, lastCall)

\* C5, witness: updateChunks has returned from a call with U >= L that kept a
\* flagged chunk outside the unload radius next to the chunks of its window
UnflaggedResidentWitness ==
    /\ UpdateReturned /\ lastCall.unloadRadius >= lastCall.loadRadius
    /\ \E c \in DOMAIN chunks : AnyFlag(chunks[c]) /\ ~WithinUnloadRadius(c, lastCall)
    /\ \E c \in DOMAIN chunks : ~AnyFlag(chunks[c])

\* C6: the list updateChunks returns holds, once each, the coordinates of its load
\* window (within L on x and z, within 1 on y) that were not stored before the
\* call, and nothing else
NewChunksExact ==
    [][lastCall'.op = "updateChunks" =>
          LET new == lastCall'.newChunks
              window == Box(CameraChunkOf(lastCall'), lastCall'.loadRadius, 1)
          IN  /\ \A c \in window \ DOMAIN chunks :
                    Cardinality({k \in 1..Len(new) : new[k].coord = c}) = 1
              /\ \A k \in 1..Len(new) :
                    new[k].coord \in window /\ new[k].coord \notin DOMAIN chunks]_vars

\* C6, witness: updateChunks has returned a list that holds a part of its load
\* window and not all of it
NewChunksExactWitness ==
    /\ UpdateReturned
    /\ Len(lastCall.newChunks) > 0
    /\ Len(lastCall.newChunks) < Cardinality(Box(CameraChunkOf(lastCall), lastCall.loadRadius, 1))

\* C13: in every call of updateChunks with U >= L >= 0 the vertical unload radius
\* is greater than the vertical load radius, and a call of updateChunks that
\* follows a call with the same radii, the observer in the same chunk or in a
\* vertically adjacent one and no flag set, creates no chunk that the call
\* before it has removed
VerticalHysteresis ==
    /\ []((UpdateReturned /\ lastCall.unloadRadius >= lastCall.loadRadius) =>
             verticalUnloadRadius(lastCall.unloadRadius) > verticalRadius)
    /\ [][(/\ lastCall.op = "updateChunks" /\ lastCall'.op = "updateChunks"
            /\ lastCall'.loadRadius = lastCall.loadRadius
            /\ lastCall'.unloadRadius = lastCall.unloadRadius
            /\ lastCall.unloadRadius >= lastCall.loadRadius
            /\ \A c \in DOMAIN chunks : ~AnyFlag(chunks[c])) =>
               \A k \in 1..Len(lastCall'.newChunks) :
                   lastCall'.newChunks[k].coord \notin lastCall.removed]_vars

\* C17: every pointer in the list updateChunks returns, for U >= L >= 0, points to
\* a chunk that is stored when the call returns: the unload pass of a call does
\* not erase a chunk the load loops of the same call have created
ReturnedChunksStored ==
    (UpdateReturned /\ lastCall.unloadRadius >= lastCall.loadRadius) =>
        \A k \in 1..Len(lastCall.newChunks) :
            /\ lastCall.newChunks[k].coord \in DOMAIN chunks
            /\ chunks[lastCall.newChunks[k].coord].addr = lastCall.newChunks[k].addr

AbsentChunkSamplesAir ==
    [][lastCall'.op = "sampleSDF" =>
          /\ chunks' = chunks
          /\ worldToChunkCoord(lastCall'.worldPos) \notin DOMAIN chunks =>
                (lastCall'.value = -10000 /\ lastCall'.value < 0)]_vars

\* C8, witness: the store holds chunks, and sampleSDF has been called at a position
\* in a chunk that is not among them
AbsentChunkSamplesAirWitness ==
    /\ lastCall.op = "sampleSDF"
    /\ DOMAIN chunks # {}
    /\ worldToChunkCoord(lastCall.worldPos) \notin DOMAIN chunks
    /\ lastCall.value = -10000

\* the sample sampleSDF returned is the sample stored at every index within
\* indices, on each axis, whose world position it was called with
RoundTripAt(indices) ==
    lastCall.op = "sampleSDF" =>
        \A c \in DOMAIN chunks : \A x \in indices, y \in indices, z \in indices :
            lastCall.worldPos = voxelWorldPos(c, x, y, z) =>
                lastCall.value = Sdf(chunks, c, x, y, z)

\* C9 as claimed: sampleSDF at the world position of a sample of a stored chunk
\* returns the stored sample, for every index 0..CHUNK_CUBES on every axis
RoundTripWithHighEdge == RoundTripAt(0..CHUNK_CUBES)

\* C9, amended: sampleSDF at the world position of a sample of a stored chunk
\* returns the stored sample, for every index 0..CHUNK_CUBES - 1 on every axis
RoundTripBelowHighEdge == RoundTripAt(0..(CHUNK_CUBES - 1))

\* C9, witness: sampleSDF has returned the sample with the highest index below the
\* high edge of a chunk that holds the field x + 2y + 3z
RoundTripWitness ==
    /\ lastCall.op = "sampleSDF"
    /\ SampleChunk \in DOMAIN chunks /\ chunks[SampleChunk].sdf = "ramp"
    /\ lastCall.worldPos = voxelWorldPos(SampleChunk, CHUNK_CUBES - 1, CHUNK_CUBES - 1,
                                         CHUNK_CUBES - 1)
    /\ lastCall.value = Sdf(chunks, SampleChunk, CHUNK_CUBES - 1, CHUNK_CUBES - 1,
                            CHUNK_CUBES - 1)

\* every stored buffer holds the field
FieldIs(field) == \A c \in DOMAIN chunks : chunks[c].sdf = field

\* the six positions calculateSDFNormal samples around pos are in stored chunks
GradientLoaded(pos) ==
    \A i \in 1..3, d \in {-100, 100} :
        worldToChunkCoord([pos EXCEPT ![i] = pos[i] + d]) \in DOMAIN chunks

\* updatePhysics has probed the ground with the feet at a point of the plane y = 0,
\* the chunks around it stored
ProbedSurface ==
    /\ lastCall.op = "updatePhysics" /\ lastCall.probed
    /\ lastCall.worldPos[2] = 0
    /\ GradientLoaded(lastCall.worldPos)

\* the probe found the normal (0, 1, 0) and the slope angle 0, and the camera is
\* on the ground
FlatGroundFound ==
    /\ camera.groundNormal = <<0, 1000, 0>>
    /\ lastCall.slopeAngle = 0
    /\ camera.onGround

\* C10 as claimed: with the samples of f(x, y, z) = y the ground probe at a point
\* of the surface y = 0 finds the normal (0, 1, 0) and the slope angle 0, and the
\* surface is walkable
GradientSanityPlusY == (ProbedSurface /\ FieldIs("y")) => FlatGroundFound

\* C10, amended: with the samples of f(x, y, z) = -y, which is solid below y = 0,
\* the ground probe at a point of the surface y = 0 whose surrounding chunks are
\* stored finds the normal (0, 1, 0) and the slope angle 0, and the surface is
\* walkable
GradientSanityMinusY == (ProbedSurface /\ FieldIs("minusY")) => FlatGroundFound

\* C10, witness: the ground probe has found flat ground at y = 0 in the field -y
GradientSanityWitness == ProbedSurface /\ FieldIs("minusY") /\ FlatGroundFound

(***************************************************************************)
(* Properties of the extractor.                                             *)
(***************************************************************************)
MeshReturned == lastCall.op = "generateMesh" /\ lastCall.coord \in DOMAIN chunks

\* the samples of the chunk generateMesh was called on
MeshSamples ==
    {ChunkSdf(chunks[lastCall.coord], lastCall.coord, x, y, z) :
        x \in 0..CHUNK_CUBES, y \in 0..CHUNK_CUBES, z \in 0..CHUNK_CUBES}

\* the cubes of a chunk
Cubes == (0..(CHUNK_CUBES - 1)) \X (0..(CHUNK_CUBES - 1)) \X (0..(CHUNK_CUBES - 1))

\* the 8 corner values of a cube of the chunk generateMesh was called on
CornerValues(cube) ==
    {ChunkSdf(chunks[lastCall.coord], lastCall.coord, cube[1] + dx, cube[2] + dy, cube[3] + dz) :
        dx \in {0, 1}, dy \in {0, 1}, dz \in {0, 1}}

\* all values are on one side of the threshold
OneSide(values) == (\A v \in values : v < isoLevel) \/ (\A v \in values : v > isoLevel)

\* the vertices generateMesh adds for a cube of the chunk it was called on
VerticesOf(cube) ==
    cubeVertices(chunks[lastCall.coord], lastCall.coord, cube[1], cube[2], cube[3])

\* C11: generateMesh returns no vertex for a chunk whose samples are all strictly
\* below 0 and for a chunk whose samples are all strictly above 0; a cube adds
\* vertices only if its 8 corners are not all on one side of 0, so a chunk whose
\* cubes all have their corners on one side gives no vertex; the number of
\* vertices returned is a multiple of 3
ExtractorSignConvention ==
    MeshReturned =>
        /\ OneSide(MeshSamples) => lastCall.vertices = <<>>
        /\ \A cube \in Cubes : VerticesOf(cube) # <<>> => ~OneSide(CornerValues(cube))
        /\ (\A cube \in Cubes : OneSide(CornerValues(cube))) => lastCall.vertices = <<>>
        /\ Len(lastCall.vertices) % 3 = 0

\* C11, witness: generateMesh has returned triangles for a chunk of which one cube
\* has all its corners below 0 and gave no vertex, and another cube gave vertices
ExtractorSignConventionWitness ==
    /\ MeshReturned
    /\ lastCall.vertices # <<>>
    /\ \E cube \in Cubes : (\A v \in CornerValues(cube) : v < isoLevel) /\ VerticesOf(cube) = <<>>
    /\ \E cube \in Cubes : VerticesOf(cube) # <<>>

(***************************************************************************)
(* Properties of the controller's ticks.                                    *)
(***************************************************************************)
\* the camera after n calls of processKeyboard with no key pressed
RECURSIVE idleTicks(_, _, _)
idleTicks(cam, deltaTime, n) ==
    IF n = 0 THEN cam ELSE idleTicks(processKeyboard(cam, {}, deltaTime), deltaTime, n - 1)

Grounded(cam) == cam.onGround /\ ~cam.noclip

AtRest(cam) == cam.velocity[1] = 0 /\ cam.velocity[3] = 0

\* C12: in physics mode, with the camera on the ground and no key pressed, a call
\* of processKeyboard makes the horizontal speed smaller, or leaves it 0 if it is
\* 0; and FrictionBound such calls bring the horizontal velocity of a camera on
\* the ground to exactly 0
FrictionConvergence ==
    /\ [](Grounded(camera) =>
             \A deltaTime \in FrictionDeltaTimes :
                 AtRest(idleTicks(camera, deltaTime, FrictionBound)))
    /\ [][(lastCall'.op = "processKeyboard" /\ lastCall'.keys = {} /\ Grounded(camera)) =>
             \/ HorizontalSpeed(camera'.velocity) < HorizontalSpeed(camera.velocity)
             \/ AtRest(camera) /\ AtRest(camera')]_vars

\* C12, witness: friction has brought a camera on the ground to rest: the call
\* before this state found a speed of at most 0.001 and made it 0
FrictionConvergenceWitness ==
    /\ lastCall.op = "processKeyboard" /\ lastCall.keys = {}
    /\ Grounded(camera) /\ AtRest(camera)
    /\ frames >= 3
    /\ \E deltaTime \in FrictionDeltaTimes, velocity \in {<<1, 0, 0>>, <<0, 0, 1>>, <<-1, 0, 0>>, <<0, 0, -1>>} :
          camera = processKeyboard([camera EXCEPT !.velocity = velocity], {}, deltaTime)

\* C14: a call of processKeyboard flips the mode iff the N key is pressed at the
\* call and was not pressed at the call of processKeyboard before it: the key
\* held over several calls flips the mode at the first of them only, a call with
\* the key released does not flip it, and no other call changes the mode
ToggleEdgeTriggered ==
    [][IF lastCall'.op = "processKeyboard"
       THEN (camera'.noclip # camera.noclip) <=> ("N" \in lastCall'.keys /\ "N" \notin prevKeys)
       ELSE camera'.noclip = camera.noclip]_vars

\* C14, witness: the N key was pressed at two calls of processKeyboard in a row;
\* the first has put the camera in noclip mode and the second has left it there
ToggleEdgeTriggeredWitness ==
    /\ lastCall.op = "processKeyboard"
    /\ "N" \in lastCall.keys /\ "N" \in lastCall.keysBefore
    /\ lastCall.noclipBefore /\ camera.noclip

\* C18: a call of processKeyboard that is processed in physics mode with the space
\* key pressed, the key released at the call of processKeyboard before it, calls
\* jump, whatever the mode of the earlier calls was; and a call with the space
\* key released does not call jump
JumpKeyEdgeTriggered ==
    [][lastCall'.op = "processKeyboard" =>
          /\ (~camera'.noclip /\ "SPACE" \in lastCall'.keys /\ "SPACE" \notin prevKeys) =>
                 lastCall'.jumped
          /\ lastCall'.jumped => "SPACE" \in lastCall'.keys]_vars

\* C16: whenever the body probe of a tick finds the tentative centre more than 0.05
\* inside solid, the velocity after the wall collision is slideVel, the component
\* of the velocity before it tangent to the wall, on all three axes
WallSlideTangential ==
    (lastCall.op = "updatePhysics" /\ lastCall.body.sdfAtCenter > 50)
        => lastCall.body.after = lastCall.body.slideVel

\* C15: a tick whose ground probe finds solid within 0.5 of the feet, with a vertical
\* velocity of at most 0.5, ends with onGround set, jumpsRemaining = 2 and
\* velocity.y = 0 when the slope is at most maxWalkableSlope, and with onGround clear
\* and jumpsRemaining as it was before the tick when the slope is steeper
GroundContact ==
    (lastCall.op = "updatePhysics" /\ lastCall.probed)
        => IF lastCall.slopeAngle <= maxWalkableSlope
           THEN camera.onGround /\ camera.jumpsRemaining = 2 /\ camera.velocity[2] = 0
           ELSE ~camera.onGround /\ camera.jumpsRemaining = lastCall.jumpsBefore

\* a tick over a walkable slope whose wall collision has acted on a velocity
\* whose component tangent to the wall is not horizontal
GroundContactWitness ==
    /\ lastCall.op = "updatePhysics" /\ lastCall.probed
    /\ lastCall.slopeAngle <= maxWalkableSlope
    /\ lastCall.body.sdfAtCenter > 50 /\ lastCall.body.slideVel[2] # 0
    /\ camera.onGround /\ camera.jumpsRemaining = 2 /\ camera.velocity[2] = 0
====
